---- MODULE Spec2Model ----
(***************************************************************************)
(* Model of the rule-based dialogue engine: IntentEngine (classification   *)
(* and entity extraction), ContextManager (per-user conversation state     *)
(* with expiry), ActionRouter, KnowledgeEngine and the MainBot             *)
(* orchestrator.                                                           *)
(*                                                                         *)
(* Text is a sequence of one-character strings, so that lower(), strip()   *)
(* and the regular expressions of the source operate on characters.        *)
(* Python's None is the one-element sequence <<"None">>, which no text     *)
(* equals (texts hold one-character elements only).                        *)
(***************************************************************************)
EXTENDS Integers, Sequences, FiniteSets, TLC

(***************************************************************************)
(* The state                                                               *)
(***************************************************************************)
\* the clock stops at MaxTime
MaxTime == 10

\* at most MaxActions actions are registered
MaxActions == 2

\* at most MaxTurns messages are processed
MaxTurns == 3

VARIABLES
    turns,       \* the number of messages processed
    actions,     \* ActionRouter.actions
    contexts,    \* ContextManager.contexts
    knowledge,   \* KnowledgeEngine.knowledge
    now,         \* datetime.now(), in minutes
    last,        \* the last call: what it was given and what it returned
    threads,     \* the calls of process_message in progress at the same time
    channels     \* MainBot.channels

vars == <<turns, actions, contexts, knowledge, now, last, threads, channels>>

\* process_message is called by one caller at a time
NoThreads == <<>>

(***************************************************************************)
(* Characters and the str methods the source uses.                         *)
(***************************************************************************)
UpperChars == <<"A","B","C","D","E","F","G","H","I","J","K","L","M",
                "N","O","P","Q","R","S","T","U","V","W","X","Y","Z">>

LowerChars == <<"a","b","c","d","e","f","g","h","i","j","k","l","m",
                "n","o","p","q","r","s","t","u","v","w","x","y","z">>

Range(f) == {f[i] : i \in DOMAIN f}

\* F(e), with e evaluated once (a local variable assigned once and read many times)
Bind(e, F(_)) == CHOOSE r \in {F(x) : x \in {e}} : TRUE

Letters == Range(UpperChars) \cup Range(LowerChars)

Digits == {"0","1","2","3","4","5","6","7","8","9"}

\* \w of the re module
WordChars == Letters \cup Digits \cup {"_"}

\* \s of the re module, and the characters str.strip() removes
SpaceChars == {" ", "\t"}

None == <<"None">>

\* truth value of an Optional[str]: None and "" are both false
Truthy(v) == v # None /\ v # <<>>

LowerChar(c) ==
    IF c \in Range(UpperChars)
    THEN LowerChars[CHOOSE i \in DOMAIN UpperChars : UpperChars[i] = c]
    ELSE c

\* str.lower()
Lower(s) == [i \in 1..Len(s) |-> LowerChar(s[i])]

\* s[a..b] (1-based, inclusive; empty when b < a)
Slice(s, a, b) == IF b < a THEN <<>> ELSE SubSeq(s, a, b)

\* str.strip()
Strip(s) ==
    LET keep == {i \in 1..Len(s) : s[i] \notin SpaceChars}
    IN IF keep = {} THEN <<>>
       ELSE LET a == CHOOSE i \in keep : \A j \in keep : i <= j
                b == CHOOSE i \in keep : \A j \in keep : j <= i
            IN Slice(s, a, b)

\* str.strip("?.,!") and friends
StripChars(s, cs) ==
    LET keep == {i \in 1..Len(s) : s[i] \notin cs}
    IN IF keep = {} THEN <<>>
       ELSE LET a == CHOOSE i \in keep : \A j \in keep : i <= j
                b == CHOOSE i \in keep : \A j \in keep : j <= i
            IN Slice(s, a, b)

\* sub occurs in s at position i
OccursAt(sub, s, i) ==
    /\ i >= 1
    /\ i + Len(sub) - 1 <= Len(s)
    /\ \A k \in 1..Len(sub) : s[i + k - 1] = sub[k]

\* the `in` operator on strings
Contains(s, sub) == \E i \in 1..(Len(s) + 1) : OccursAt(sub, s, i)

\* str.replace(old, new) for a one-character old
ReplaceChar(s, old, new) == [i \in 1..Len(s) |-> IF s[i] = old THEN new ELSE s[i]]

\* the string without the positions of drop
RECURSIVE Without(_, _, _)
Without(s, drop, i) ==
    IF i > Len(s) THEN <<>>
    ELSE IF i \in drop THEN Without(s, drop, i + 1)
    ELSE <<s[i]>> \o Without(s, drop, i + 1)

\* str.split(): maximal runs of non-whitespace characters, in order
RECURSIVE SplitFrom(_, _)
SplitFrom(s, i) ==
    IF i > Len(s) THEN <<>>
    ELSE IF s[i] \in SpaceChars THEN SplitFrom(s, i + 1)
    ELSE LET ends == {j \in i..Len(s) : \A k \in i..j : s[k] \notin SpaceChars}
             e    == CHOOSE j \in ends : \A k \in ends : k <= j
         IN <<Slice(s, i, e)>> \o SplitFrom(s, e + 1)

Split(s) == SplitFrom(s, 1)

(***************************************************************************)
(* Regular expressions, as far as re.search's yes/no answer goes: Ends is  *)
(* the set of positions at which a match of re that starts at i can end.   *)
(***************************************************************************)
ReSet(cs)  == [t |-> "set", cs |-> cs]
ReLit(c)   == ReSet({c})
ReDot      == [t |-> "dot"]
ReWB       == [t |-> "wb"]
ReEnd      == [t |-> "end"]
ReSeq(rs)  == [t |-> "seq", rs |-> rs]
ReAlt(rs)  == [t |-> "alt", rs |-> rs]
ReOpt(r)   == [t |-> "opt", r |-> r]
RePlus(r)  == [t |-> "plus", r |-> r]
ReStar(r)  == ReOpt(RePlus(r))
ReStr(w)   == ReSeq([i \in 1..Len(w) |-> ReLit(w[i])])
ReWs       == ReSet(SpaceChars)
ReWord     == ReSet(WordChars)

IsWordAt(s, i) == i >= 1 /\ i <= Len(s) /\ s[i] \in WordChars

\* \b between s[i-1] and s[i]
WordBoundary(s, i) == IsWordAt(s, i - 1) # IsWordAt(s, i)

RECURSIVE Ends(_, _, _)
RECURSIVE EndsSeq(_, _, _, _)
RECURSIVE EndsPlus(_, _, _)
Ends(re, s, i) ==
    CASE re.t = "set"  -> IF i <= Len(s) /\ s[i] \in re.cs THEN {i + 1} ELSE {}
      [] re.t = "dot"  -> IF i <= Len(s) /\ s[i] # "\n" THEN {i + 1} ELSE {}
      [] re.t = "wb"   -> IF WordBoundary(s, i) THEN {i} ELSE {}
      [] re.t = "end"  -> IF i = Len(s) + 1 THEN {i} ELSE {}
      [] re.t = "seq"  -> EndsSeq(re.rs, 1, s, i)
      [] re.t = "alt"  -> UNION {Ends(re.rs[k], s, i) : k \in DOMAIN re.rs}
      [] re.t = "opt"  -> {i} \cup Ends(re.r, s, i)
      [] re.t = "plus" -> EndsPlus(re.r, s, i)

\* the ends of rs[k], rs[k+1], ... matched in a row from i
EndsSeq(rs, k, s, i) ==
    IF k > Len(rs) THEN {i}
    ELSE UNION {EndsSeq(rs, k + 1, s, p) : p \in Ends(rs[k], s, i)}

\* the ends of one or more matches of r in a row from i (r consumes a character)
EndsPlus(r, s, i) ==
    UNION {{p} \cup EndsPlus(r, s, p) : p \in Ends(r, s, i)}

\* bool(re.search(re, s))
ReSearch(re, s) == \E i \in 1..(Len(s) + 1) : Ends(re, s, i) # {}

(***************************************************************************)
(* IntentEngine                                                            *)
(***************************************************************************)
NoIntent == "None"

\* self.intent_patterns, in the dict's insertion order
intent_patterns == <<
    [intent |-> "get_weather", patterns |-> <<
        \* \b(weather|temperature|forecast)\b
        ReSeq(<<ReWB, ReAlt(<<ReStr(<<"w","e","a","t","h","e","r">>),
                              ReStr(<<"t","e","m","p","e","r","a","t","u","r","e">>),
                              ReStr(<<"f","o","r","e","c","a","s","t">>)>>), ReWB>>),
        \* \bhow'?s?\s+it\s+outside\b
        ReSeq(<<ReWB, ReStr(<<"h","o","w">>), ReOpt(ReLit("'")), ReOpt(ReLit("s")),
                RePlus(ReWs), ReStr(<<"i","t">>), RePlus(ReWs),
                ReStr(<<"o","u","t","s","i","d","e">>), ReWB>>),
        \* \bwhat'?s?\s+the\s+weather\b
        ReSeq(<<ReWB, ReStr(<<"w","h","a","t">>), ReOpt(ReLit("'")), ReOpt(ReLit("s")),
                RePlus(ReWs), ReStr(<<"t","h","e">>), RePlus(ReWs),
                ReStr(<<"w","e","a","t","h","e","r">>), ReWB>>) >>],
    [intent |-> "learn_knowledge", patterns |-> <<
        \* \blearn\b
        ReSeq(<<ReWB, ReStr(<<"l","e","a","r","n">>), ReWB>>),
        \* \bteach\b
        ReSeq(<<ReWB, ReStr(<<"t","e","a","c","h">>), ReWB>>),
        \* \bremember\b
        ReSeq(<<ReWB, ReStr(<<"r","e","m","e","m","b","e","r">>), ReWB>>),
        \* \b[\w_]+\s*=\s*.+\b
        ReSeq(<<ReWB, RePlus(ReWord), ReStar(ReWs), ReLit("="), ReStar(ReWs),
                RePlus(ReDot), ReWB>>) >>],
    [intent |-> "ask_knowledge", patterns |-> <<
        \* \bwhat\s+is\b
        ReSeq(<<ReWB, ReStr(<<"w","h","a","t">>), RePlus(ReWs), ReStr(<<"i","s">>), ReWB>>),
        \* \btell\s+me\s+about\b
        ReSeq(<<ReWB, ReStr(<<"t","e","l","l">>), RePlus(ReWs), ReStr(<<"m","e">>),
                RePlus(ReWs), ReStr(<<"a","b","o","u","t">>), ReWB>>),
        \* \bdo\s+you\s+know\b
        ReSeq(<<ReWB, ReStr(<<"d","o">>), RePlus(ReWs), ReStr(<<"y","o","u">>),
                RePlus(ReWs), ReStr(<<"k","n","o","w">>), ReWB>>),
        \* \bwhat'?s\b
        ReSeq(<<ReWB, ReStr(<<"w","h","a","t">>), ReOpt(ReLit("'")), ReLit("s"), ReWB>>) >>] >>

\* the loop over intent_patterns run so that the last matching entry decides
FirstMatchingIntent_last(text_lower) ==
    LET hits == {k \in DOMAIN intent_patterns :
                    \E p \in DOMAIN intent_patterns[k].patterns :
                        ReSearch(intent_patterns[k].patterns[p], text_lower)}
    IN IF hits = {} THEN NoIntent
       ELSE intent_patterns[CHOOSE k \in hits : \A h \in hits : k >= h].intent

\* the intent of the first entry of intent_patterns with a pattern that matches
FirstMatchingIntent(text_lower) ==
    LET hits == {k \in DOMAIN intent_patterns :
                    \E p \in DOMAIN intent_patterns[k].patterns :
                        ReSearch(intent_patterns[k].patterns[p], text_lower)}
    IN IF hits = {} THEN NoIntent
       ELSE intent_patterns[CHOOSE k \in hits : \A h \in hits : k <= h].intent

\* detect_intent without the test for "=": the patterns alone decide
DetectLowered_patterns_only(text_lower) ==
    IF text_lower = <<>> THEN NoIntent
    ELSE FirstMatchingIntent(text_lower)

\* detect_intent from "if not text_lower" on
DetectLowered(text_lower) ==
    IF text_lower = <<>> THEN NoIntent
    ELSE IF Contains(text_lower, <<"=">>) THEN "learn_knowledge"
    ELSE FirstMatchingIntent(text_lower)

detect_intent(text) == Bind(Strip(Lower(text)), DetectLowered)

\* (?:\s+\?|$|\.|,)
LocationTerminator ==
    ReAlt(<<ReSeq(<<RePlus(ReWs), ReLit("?")>>), ReEnd, ReLit("."), ReLit(",")>>)

Min(S) == CHOOSE x \in S : \A y \in S : x <= y

Max(S) == CHOOSE x \in S : \A y \in S : y <= x

\* re.search(r"\bin\s+([A-Za-z\s]+?)(?:\s+\?|$|\.|,)", text, re.IGNORECASE).
\* The lengths n of a group [A-Za-z\s]+ that starts at g and is followed by the terminator
LocationGroupLens(text, g) ==
    {n \in 1..(Len(text) - g + 1) :
        /\ \A p \in g..(g + n - 1) : text[p] \in Letters \cup SpaceChars
        /\ Ends(LocationTerminator, text, g + n) # {}}

\* the lengths k of the \s+ after an "in" at i from which the rest of the pattern matches
LocationSpaceLens(text, i) ==
    {k \in 1..(Len(text) - i - 1) :
        /\ \A p \in (i + 2)..(i + 1 + k) : text[p] \in SpaceChars
        /\ LocationGroupLens(text, i + 2 + k) # {}}

\* the positions at which a match starts
LocationStarts(text) ==
    {i \in 1..Len(text) :
        /\ WordBoundary(text, i)
        /\ OccursAt(<<"i","n">>, Lower(text), i)
        /\ LocationSpaceLens(text, i) # {}}

\* match.group(1): leftmost start, longest \s+ (greedy), shortest group (lazy)
LocationGroup(text) ==
    Bind(Min(LocationStarts(text)), LAMBDA i :
    Bind(i + 2 + Max(LocationSpaceLens(text, i)), LAMBDA g :
    Bind(Min(LocationGroupLens(text, g)), LAMBDA n :
        Slice(text, g, g + n - 1))))

TriggerWords == {<<"w","e","a","t","h","e","r">>,
                 <<"f","o","r","e","c","a","s","t">>,
                 <<"t","e","m","p","e","r","a","t","u","r","e">>}

\* " ".join(parts)
RECURSIVE JoinWords(_)
JoinWords(parts) ==
    IF Len(parts) = 0 THEN <<>>
    ELSE IF Len(parts) = 1 THEN parts[1]
    ELSE parts[1] \o <<" ">> \o JoinWords(Tail(parts))

\* the inner loop: words j = i+1 .. min(i+3, len), taken while capitalised (the first always)
RECURSIVE LocationParts(_, _, _)
LocationParts(words, i, j) ==
    IF j > Len(words) \/ j > i + 3 THEN <<>>
    ELSE IF words[j][1] \in Range(UpperChars) \/ j = i + 1
    THEN <<StripChars(words[j], {"?", ".", ",", "!"})>> \o LocationParts(words, i, j + 1)
    ELSE <<>>

\* the loop over the words: the first trigger word that has a word after it decides
LocationFromWords(words) ==
    LET trig == {i \in 1..(Len(words) - 1) : Lower(words[i]) \in TriggerWords}
    IN IF trig = {} THEN None
       ELSE Bind(Min(trig), LAMBDA i : Bind(LocationParts(words, i, i + 1), JoinWords))

_extract_location(text) ==
    IF LocationStarts(text) # {}
    THEN Bind(LocationGroup(text), Strip)
    ELSE Bind(Split(text), LocationFromWords)

\* (?:\s*$|\.|\?)
ValueTerminator ==
    ReAlt(<<ReSeq(<<ReStar(ReWs), ReEnd>>), ReLit("."), ReLit("?")>>)

\* re.search(r"(?:learn\s+)?([a-z_]\w*)\s*=\s*(.+?)(?:\s*$|\.|\?)", text, re.IGNORECASE).
\* The end of the run of \w characters that holds position k
WordRunEnd(text, k) == Max({e \in k..Len(text) : \A p \in k..e : text[p] \in WordChars})

\* the position of the "=" that follows the key starting at k after \s*, or 0.
\* ([a-z_]\w*) is followed by whitespace or "=", so it runs to the end of its word
KeyEquals(text, k) ==
    LET e    == WordRunEnd(text, k)
        rest == {q \in (e + 1)..Len(text) : text[q] \notin SpaceChars}
    IN IF rest # {} /\ text[Min(rest)] = "=" THEN Min(rest) ELSE 0

\* the lengths n of a value .+? that starts at v and is followed by the terminator
ValueLens(text, v) ==
    {n \in 1..(Len(text) - v + 1) :
        /\ \A p \in v..(v + n - 1) : text[p] # "\n"
        /\ Ends(ValueTerminator, text, v + n) # {}}

\* the positions v at which the value can start: after "=" at q and some of the whitespace
ValueStarts(text, q) ==
    {v \in (q + 1)..Len(text) :
        /\ \A p \in (q + 1)..(v - 1) : text[p] \in SpaceChars
        /\ ValueLens(text, v) # {}}

\* the positions k at which a key can start so that the rest of the pattern matches
KeyStarts(text) ==
    {k \in 1..Len(text) :
        /\ text[k] \in Letters \cup {"_"}
        /\ KeyEquals(text, k) # 0
        /\ ValueStarts(text, KeyEquals(text, k)) # {}}

\* the key positions reached through the optional prefix learn\s+ that starts at i
PrefixedKeyStarts(text, i) ==
    {k \in KeyStarts(text) :
        /\ OccursAt(<<"l","e","a","r","n">>, Lower(text), i)
        /\ k > i + 5
        /\ \A p \in (i + 5)..(k - 1) : text[p] \in SpaceChars}

\* the positions at which a match starts
KeyValueStarts(text) ==
    {i \in 1..Len(text) : i \in KeyStarts(text) \/ PrefixedKeyStarts(text, i) # {}}

\* <<group(1), group(2)>>: leftmost start; the optional prefix is tried before its
\* absence; the \s* after "=" is greedy and the value lazy
KeyValueGroups(text) ==
    Bind(Min(KeyValueStarts(text)), LAMBDA i :
    Bind(IF PrefixedKeyStarts(text, i) # {} THEN Min(PrefixedKeyStarts(text, i)) ELSE i, LAMBDA k :
    Bind(Max(ValueStarts(text, KeyEquals(text, k))), LAMBDA v :
    Bind(Min(ValueLens(text, v)), LAMBDA n :
        <<Slice(text, k, WordRunEnd(text, k)), Slice(text, v, v + n - 1)>>))))

\* <<key, value>>
_extract_key_value(text) ==
    IF KeyValueStarts(text) # {}
    THEN Bind(KeyValueGroups(text), LAMBDA m : <<Bind(m[1], Strip), Bind(m[2], Strip)>>)
    ELSE <<None, None>>

StopWords == {<<"w","h","a","t">>, <<"i","s">>, <<"t","h","e">>, <<"t","e","l","l">>,
              <<"m","e">>, <<"a","b","o","u","t">>, <<"d","o">>, <<"y","o","u">>,
              <<"k","n","o","w">>}

\* the positions re.sub(r"\b(what|is|...|know)\b", "", text, flags=re.IGNORECASE) deletes
StopWordPositions(text) ==
    Bind(Lower(text), LAMBDA text_lower :
        {p \in 1..Len(text) :
            \E w \in StopWords : \E i \in 1..p :
                /\ p \in i..(i + Len(w) - 1)
                /\ OccursAt(w, text_lower, i)
                /\ WordBoundary(text, i)
                /\ WordBoundary(text, i + Len(w))})

\* re.sub(r"[?.,!]", "", s)
RemovePunctuation(s) == Without(s, {p \in 1..Len(s) : s[p] \in {"?", ".", ",", "!"}}, 1)

\* the key made of the cleaned question, or None
KeyOfCleaned(cleaned) ==
    IF cleaned # <<>> THEN ReplaceChar(Lower(cleaned), " ", "_") ELSE None

_extract_question_key(text) ==
    Bind(Without(text, StopWordPositions(text), 1), LAMBDA sub1 :
    Bind(RemovePunctuation(sub1), LAMBDA sub2 :
    Bind(Strip(sub2), KeyOfCleaned)))

\* a response text: its kind, the entity or intent name in it, and the texts it quotes
Response(kind, name, a, b) == [kind |-> kind, name |-> name, a |-> a, b |-> b]

\* a dict as a function on its keys
EmptyDict == [n \in {} |-> None]

DictSet(d, k, v) == [n \in (DOMAIN d) \cup {k} |-> IF n = k THEN v ELSE d[n]]

\* dict.update
DictUpdate(d, new) == [n \in (DOMAIN d) \cup (DOMAIN new) |-> IF n \in DOMAIN new THEN new[n] ELSE d[n]]

\* dict.get(k, default)
DictGet(d, k, default) == IF k \in DOMAIN d THEN d[k] ELSE default

\* the entities of a learn command: a key and a value are entered only when true
KeyValueEntities(kv) ==
    [n \in {x \in {"key"} : Truthy(kv[1])} \cup {x \in {"value"} : Truthy(kv[2])} |->
        IF n = "key" THEN kv[1] ELSE kv[2]]

extract_entities(text, intent) ==
    IF intent = "get_weather"
    THEN Bind(_extract_location(text), LAMBDA location : DictSet(EmptyDict, "location", location))
    ELSE IF intent = "learn_knowledge"
    THEN Bind(_extract_key_value(text), KeyValueEntities)
    ELSE IF intent = "ask_knowledge"
    THEN Bind(_extract_question_key(text), LAMBDA key : DictSet(EmptyDict, "key", key))
    ELSE EmptyDict

\* get_missing_entities without its test: every required name counts as missing
get_missing_entities_all(required, extracted) == required

\* get_missing_entities without "or not extracted[entity]": a name present with
\* the value None counts as supplied
get_missing_entities_present(required, extracted) ==
    SelectSeq(required, LAMBDA entity : entity \notin DOMAIN extracted)

get_missing_entities(required, extracted) ==
    SelectSeq(required, LAMBDA entity : entity \notin DOMAIN extracted \/ ~Truthy(extracted[entity]))

\* the prompt for an entity, as the entity's name (the texts differ per name)
prompt_for_entity(entity_name) == Response("prompt", entity_name, <<>>, <<>>)

(***************************************************************************)
(* KnowledgeEngine: self.knowledge (kb) is a dict, kept here as the         *)
(* sequence of its items in insertion order (the order the fuzzy match     *)
(* iterates in).                                                           *)
(***************************************************************************)
\* the fixed fallback text of query (one element, so no stored value equals it)
UnknownMessage == <<"I don't know that yet. Try teaching me!">>

KnowledgeIndex(kb, key) == {i \in DOMAIN kb : kb[i].key = key}

\* add_knowledge that always makes a new entry
add_knowledge_appending(kb, key, value) ==
    Append(kb, [key |-> Strip(Lower(key)), value |-> Strip(value)])

\* add_knowledge that stores under the key as given, not lowered and stripped
add_knowledge_raw_key(kb, key, value) ==
    LET item == [key |-> key, value |-> Strip(value)]
    IN IF KnowledgeIndex(kb, key) # {}
       THEN [i \in DOMAIN kb |-> IF kb[i].key = key THEN item ELSE kb[i]]
       ELSE Append(kb, item)

add_knowledge(kb, key, value) ==
    LET normalized_key == Strip(Lower(key))
        item           == [key |-> normalized_key, value |-> Strip(value)]
    IN IF KnowledgeIndex(kb, normalized_key) # {}
       THEN [i \in DOMAIN kb |-> IF kb[i].key = normalized_key THEN item ELSE kb[i]]
       ELSE Append(kb, item)

\* query that tries the fuzzy match before the direct match
query_fuzzy_first(kb, question) ==
    LET normalized == Strip(Lower(question))
        fuzzy      == {i \in DOMAIN kb :
                          \/ Contains(normalized, kb[i].key)
                          \/ Contains(kb[i].key, normalized)}
    IN IF fuzzy # {} THEN kb[Min(fuzzy)].value
       ELSE IF KnowledgeIndex(kb, normalized) # {}
       THEN kb[Min(KnowledgeIndex(kb, normalized))].value
       ELSE UnknownMessage

\* query that returns the last stored key of the fuzzy match
query_last_match(kb, question) ==
    LET normalized == Strip(Lower(question))
        fuzzy      == {i \in DOMAIN kb :
                          \/ Contains(normalized, kb[i].key)
                          \/ Contains(kb[i].key, normalized)}
    IN IF KnowledgeIndex(kb, normalized) # {}
       THEN kb[Min(KnowledgeIndex(kb, normalized))].value
       ELSE IF fuzzy # {} THEN kb[Max(fuzzy)].value
       ELSE UnknownMessage

query(kb, question) ==
    LET normalized == Strip(Lower(question))
        fuzzy      == {i \in DOMAIN kb :
                          \/ Contains(normalized, kb[i].key)
                          \/ Contains(kb[i].key, normalized)}
    IN IF KnowledgeIndex(kb, normalized) # {}
       THEN kb[Min(KnowledgeIndex(kb, normalized))].value
       ELSE IF fuzzy # {} THEN kb[Min(fuzzy)].value
       ELSE UnknownMessage

get(kb, key) ==
    LET normalized == Strip(Lower(key))
    IN IF KnowledgeIndex(kb, normalized) # {}
       THEN kb[Min(KnowledgeIndex(kb, normalized))].value
       ELSE None

(***************************************************************************)
(* ActionRouter (registry is self.actions) and the actions registered with *)
(* it.  An action is its                                                   *)
(* can_handle set, its required_entities list and whether execute can      *)
(* raise.                                                                  *)
(***************************************************************************)
WeatherAction ==
    [name |-> "WeatherAction", handles |-> {"get_weather"},
     required |-> <<"location">>, may_fail |-> FALSE]

\* another implementation of BaseAction that a host registers: two required
\* entities, and an execute that can raise
TripAction ==
    [name |-> "TripAction", handles |-> {"get_weather"},
     required |-> <<"location", "date">>, may_fail |-> TRUE]

ActionPool == {WeatherAction, TripAction}

\* the registry that accept the intent, as indexes into the registry
Handlers(registry, intent) == {i \in DOMAIN registry : intent \in registry[i].handles}

\* action.execute(params); fails says whether an execute that can raise does
execute(action, params, fails) ==
    IF action.may_fail /\ fails
    THEN [raised |-> TRUE, response |-> Response("raise", action.name, <<>>, <<>>)]
    ELSE IF action.name = "WeatherAction"
    THEN [raised |-> FALSE,
          response |-> Response("weather", action.name,
                                DictGet(params, "location", <<"u","n","k","n","o","w","n">>), <<>>)]
    ELSE [raised |-> FALSE, response |-> Response("done", action.name, <<>>, <<>>)]

\* route without the try/except around execute: the exception leaves route
route_propagating(registry, intent, params, fails) ==
    IF Handlers(registry, intent) # {}
    THEN LET action == registry[Min(Handlers(registry, intent))]
             result == execute(action, params, fails)
         IN [response |-> result.response,
             executed |-> <<[action |-> action.name, params |-> params,
                             raised |-> result.raised]>>]
    ELSE [response |-> Response("no_action", intent, <<>>, <<>>), executed |-> <<>>]

\* route that takes the last registered action that accepts the intent
route_last_match(registry, intent, params, fails) ==
    IF Handlers(registry, intent) # {}
    THEN LET action == registry[Max(Handlers(registry, intent))]
             result == execute(action, params, fails)
         IN [response |-> IF result.raised
                          THEN Response("error", action.name, <<>>, <<>>)
                          ELSE result.response,
             executed |-> <<[action |-> action.name, params |-> params,
                             raised |-> result.raised]>>]
    ELSE [response |-> Response("no_action", intent, <<>>, <<>>), executed |-> <<>>]

\* route: the response and the execute calls made, each with the action's name, the
\* params it got and whether it raised
route(registry, intent, params, fails) ==
    IF Handlers(registry, intent) # {}
    THEN LET action == registry[Min(Handlers(registry, intent))]
             result == execute(action, params, fails)
         IN [response |-> IF result.raised
                          THEN Response("error", action.name, <<>>, <<>>)
                          ELSE result.response,
             executed |-> <<[action |-> action.name, params |-> params,
                             raised |-> result.raised]>>]
    ELSE [response |-> Response("no_action", intent, <<>>, <<>>), executed |-> <<>>]

get_required_entities(registry, intent) ==
    IF Handlers(registry, intent) # {}
    THEN registry[Min(Handlers(registry, intent))].required
    ELSE <<>>

(***************************************************************************)
(* ContextManager: self.contexts (ctxs) is a dict                          *)
(* user_id -> ConversationContext                                          *)
(***************************************************************************)
\* timeout_minutes of ContextManager.__init__
timeout_minutes == 5

ConversationContext(user_id, intent, entities, missing, t) ==
    [user_id |-> user_id, intent |-> intent, entities |-> entities,
     missing_entities |-> missing, timestamp |-> t]

\* is_expired with >= for >: a context expires when its age reaches the timeout
is_expired_inclusive(context, timeout, t) == t - context.timestamp >= timeout

is_expired(context, timeout, t) == t - context.timestamp > timeout

set_pending(ctxs, user_id, intent, entities, missing, t) ==
    DictSet(ctxs, user_id, ConversationContext(user_id, intent, entities, missing, t))

\* clear that leaves the context where it is
clear_nothing(ctxs, user_id) == ctxs

\* clear that forgets every user's context
clear_everyone(ctxs, user_id) == [u \in {} |-> ctxs[u]]

clear(ctxs, user_id) == [u \in (DOMAIN ctxs) \ {user_id} |-> ctxs[u]]

\* the ctxs after the call; the call returns contexts[user_id] when
\* PendingFound holds and None otherwise
get_pending(ctxs, user_id, t) ==
    IF user_id \notin DOMAIN ctxs THEN ctxs
    ELSE IF is_expired(ctxs[user_id], timeout_minutes, t) THEN clear(ctxs, user_id)
    ELSE ctxs

PendingFound(ctxs, user_id, t) ==
    /\ user_id \in DOMAIN ctxs
    /\ ~is_expired(ctxs[user_id], timeout_minutes, t)

\* update_entities that replaces the stored entities by the new ones
update_entities_replacing(ctxs, user_id, new_entities) ==
    IF user_id \in DOMAIN ctxs
    THEN [ctxs EXCEPT
            ![user_id].entities = new_entities,
            ![user_id].missing_entities =
                SelectSeq(@, LAMBDA e : e \notin DOMAIN new_entities \/ ~Truthy(new_entities[e]))]
    ELSE ctxs

\* update_entities that also restarts the TTL of the context
update_entities_refresh(ctxs, user_id, new_entities) ==
    IF user_id \in DOMAIN ctxs
    THEN [ctxs EXCEPT
            ![user_id].entities = DictUpdate(@, new_entities),
            ![user_id].missing_entities =
                SelectSeq(@, LAMBDA e : e \notin DOMAIN new_entities \/ ~Truthy(new_entities[e])),
            ![user_id].timestamp = now]
    ELSE ctxs

\* update_entities with the filter inverted: the filled names stay in the missing list
update_entities_inverted(ctxs, user_id, new_entities) ==
    IF user_id \in DOMAIN ctxs
    THEN [ctxs EXCEPT
            ![user_id].entities = DictUpdate(@, new_entities),
            ![user_id].missing_entities =
                SelectSeq(@, LAMBDA e : e \in DOMAIN new_entities /\ Truthy(new_entities[e]))]
    ELSE ctxs

update_entities(ctxs, user_id, new_entities) ==
    IF user_id \in DOMAIN ctxs
    THEN [ctxs EXCEPT
            ![user_id].entities = DictUpdate(@, new_entities),
            ![user_id].missing_entities =
                SelectSeq(@, LAMBDA e : e \notin DOMAIN new_entities \/ ~Truthy(new_entities[e]))]
    ELSE ctxs

\* the sweep with >= for >: it takes the contexts whose age has reached the timeout
expired_users_inclusive(ctxs, t) ==
    {u \in DOMAIN ctxs : t - ctxs[u].timestamp >= timeout_minutes}

expired_users(ctxs, t) ==
    {u \in DOMAIN ctxs : is_expired(ctxs[u], timeout_minutes, t)}

cleanup_expired(ctxs, t) ==
    [u \in (DOMAIN ctxs) \ expired_users(ctxs, t) |-> ctxs[u]]

(***************************************************************************)
(* The inputs: the users, and the message texts                            *)
(***************************************************************************)
Users == {"u1"}

\* "What's the weather"
T_weather == <<"W","h","a","t","'","s"," ","t","h","e"," ","w","e","a","t","h","e","r">>

\* " in Tokyo "
T_in_tokyo == <<" ","i","n"," ","T","o","k","y","o"," ">>

\* "weather in Paris"
T_weather_paris == <<"w","e","a","t","h","e","r"," ","i","n"," ","P","a","r","i","s">>

\* "learn X = 5"
T_learn_x == <<"l","e","a","r","n"," ","X"," ","="," ","5">>

\* "what is X?"
T_ask_x == <<"w","h","a","t"," ","i","s"," ","X","?">>

\* "learn this"
T_learn_this == <<"l","e","a","r","n"," ","t","h","i","s">>

\* "what is"
T_what_is == <<"w","h","a","t"," ","i","s">>

\* "  "
T_blank == <<" "," ">>

\* ""
T_empty == <<>>

Texts == {T_weather, T_in_tokyo, T_weather_paris, T_learn_x, T_ask_x, T_learn_this,
          T_what_is, T_blank, T_empty}

\* the texts the handlers see: process_message strips the text first
StrippedTexts == {Strip(t) : t \in Texts}

Intents == {"get_weather", "learn_knowledge", "ask_knowledge"}

\* detect_intent and extract_entities of every text of the model, computed once
IntentTable == {<<t, detect_intent(t)>> : t \in StrippedTexts}

EntityTable == {<<t, i, extract_entities(t, i)>> : t \in StrippedTexts, i \in Intents}

\* intent_engine.detect_intent(text)
IntentOf(text) ==
    IF text \in StrippedTexts
    THEN (CHOOSE r \in IntentTable : r[1] = text)[2]
    ELSE detect_intent(text)

\* intent_engine.extract_entities(text, intent)
EntitiesOf(text, intent) ==
    IF text \in StrippedTexts /\ intent \in Intents
    THEN (CHOOSE r \in EntityTable : r[1] = text /\ r[2] = intent)[3]
    ELSE extract_entities(text, intent)

\* a call: the operation, its arguments (user, text), the response or the exception
\* that escaped (raised), the execute calls made, the user's stored context when the
\* call was made (before: <<>> or <<context>>), what get_pending found (pending:
\* "none", "live" or "expired"), the handler that ran (path), the intent it worked
\* on, the count a sweep returned, and the knowledge when the call was made (known).
\* A call of the context manager itself has in store all the contexts when the call
\* was made, and in args the entities it was given.
\* the channel configuration a bot is made with: whether a config_path is given,
\* whether the file is found, whether it is a JSON document, and the document
ConfigFile(path, found, valid, document) ==
    [path |-> path, found |-> found, valid |-> valid, document |-> document]

\* MainBot() without config_path
NoConfig == ConfigFile(FALSE, FALSE, FALSE, EmptyDict)

Call(op, user, text, response, raised, executed, before, pending, path, intent, count, known) ==
    [op |-> op, user |-> user, text |-> text, response |-> response, raised |-> raised,
     executed |-> executed, before |-> before, pending |-> pending, path |-> path,
     intent |-> intent, count |-> count, known |-> known,
     store |-> EmptyDict, args |-> EmptyDict, config |-> NoConfig]

NoCall(op) ==
    Call(op, "", <<>>, Response("", "", <<>>, <<>>), FALSE, <<>>, <<>>, "", "", NoIntent, 0, <<>>)

(***************************************************************************)
(* MainBot.  Each handler is the step process_message takes through it:    *)
(* the stores after it, and in last the response, the execute calls made   *)
(* and whether an exception escaped (then there is no response).           *)
(***************************************************************************)
\* what get_pending finds for the user
Pending(user_id) ==
    IF user_id \notin DOMAIN contexts THEN "none"
    ELSE IF PendingFound(contexts, user_id, now) THEN "live"
    ELSE "expired"

\* the user's stored context, as a sequence of at most one
Stored(user_id) == IF user_id \in DOMAIN contexts THEN <<contexts[user_id]>> ELSE <<>>

Returns(user_id, raw, response, executed, path, intent) ==
    last' = Call("message", user_id, raw, response, FALSE, executed, Stored(user_id),
                 IF path = "empty" THEN "" ELSE Pending(user_id), path, intent, 0, knowledge)

Raises(user_id, raw, path, intent) ==
    last' = Call("message", user_id, raw, Response("raise", "AttributeError", <<>>, <<>>),
                 TRUE, <<>>, Stored(user_id), Pending(user_id), path, intent, 0, knowledge)

\* _handle_new_message that takes a text without intent for the start of a learn
\* conversation instead of answering that it did not understand
_handle_new_message_asks(user_id, raw, text, fails) ==
    \E pending \in {get_pending(contexts, user_id, now)}, intent \in {IntentOf(text)} :
        /\ contexts' = set_pending(pending, user_id, "learn_knowledge", EmptyDict,
                                   <<"key", "value">>, now)
        /\ knowledge' = knowledge
        /\ Returns(user_id, raw, prompt_for_entity("key"), <<>>, "new", intent)

\* raw is the text as received, text the stripped text
_handle_new_message(user_id, raw, text, fails) ==
    \E pending \in {get_pending(contexts, user_id, now)}, intent \in {IntentOf(text)} :
    \E entities \in {EntitiesOf(text, intent)} :
        IF intent = NoIntent
        THEN /\ contexts' = pending
             /\ knowledge' = knowledge
             /\ Returns(user_id, raw, Response("not_understood", "", <<>>, <<>>), <<>>, "new", intent)
        ELSE IF intent = "ask_knowledge"
        THEN \E key \in {DictGet(entities, "key", text)} :
             /\ contexts' = pending
             /\ knowledge' = knowledge
             /\ \* knowledge.query(None): question.lower() raises AttributeError
                IF key = None
                THEN Raises(user_id, raw, "new", intent)
                ELSE Returns(user_id, raw, Response("text", "", query(knowledge, key), <<>>),
                             <<>>, "new", intent)
        ELSE IF intent = "learn_knowledge"
        THEN \E key \in {DictGet(entities, "key", None)}, value \in {DictGet(entities, "value", None)} :
             IF ~Truthy(key)
             THEN /\ contexts' = set_pending(pending, user_id, intent, entities, <<"key", "value">>, now)
                  /\ knowledge' = knowledge
                  /\ Returns(user_id, raw, prompt_for_entity("key"), <<>>, "new", intent)
             ELSE IF ~Truthy(value)
             THEN /\ contexts' = set_pending(pending, user_id, intent, entities, <<"value">>, now)
                  /\ knowledge' = knowledge
                  /\ Returns(user_id, raw, prompt_for_entity("value"), <<>>, "new", intent)
             ELSE /\ contexts' = pending
                  /\ knowledge' = add_knowledge(knowledge, key, value)
                  /\ Returns(user_id, raw, Response("learned", "", key, value), <<>>, "new", intent)
        ELSE \E required \in {get_required_entities(actions, intent)} :
             \E missing \in {get_missing_entities(required, entities)} :
             IF missing # <<>>
             THEN /\ contexts' = set_pending(pending, user_id, intent, entities, missing, now)
                  /\ knowledge' = knowledge
                  /\ Returns(user_id, raw, prompt_for_entity(missing[1]), <<>>, "new", intent)
             ELSE \E routed \in {route(actions, intent, entities, fails)} :
                  /\ contexts' = pending
                  /\ knowledge' = knowledge
                  /\ Returns(user_id, raw, routed.response, routed.executed, "new", intent)

\* _handle_followup without the learn_knowledge branch: the slot is always extracted
FilledEntities_extracting(context, missing_entity, text) ==
    Bind(EntitiesOf(text, context.intent), LAMBDA extracted :
        IF missing_entity \in DOMAIN extracted /\ Truthy(extracted[missing_entity])
        THEN DictSet(context.entities, missing_entity, extracted[missing_entity])
        ELSE DictSet(context.entities, missing_entity, Strip(text)))

\* _handle_followup that also merges every other value the extractor yields
FilledEntities_merging(context, missing_entity, text) ==
    IF context.intent = "learn_knowledge"
    THEN IF missing_entity \in {"key", "value"}
         THEN DictSet(context.entities, missing_entity, Strip(text))
         ELSE context.entities
    ELSE Bind(EntitiesOf(text, context.intent), LAMBDA extracted :
            IF missing_entity \in DOMAIN extracted /\ Truthy(extracted[missing_entity])
            THEN DictUpdate(context.entities, extracted)
            ELSE DictSet(DictUpdate(context.entities, extracted), missing_entity, Strip(text)))

\* context.entities after the handler has written the value of missing_entity into it
FilledEntities(context, missing_entity, text) ==
    IF context.intent = "learn_knowledge"
    THEN IF missing_entity \in {"key", "value"}
         THEN DictSet(context.entities, missing_entity, Strip(text))
         ELSE context.entities
    ELSE Bind(EntitiesOf(text, context.intent), LAMBDA extracted :
            IF missing_entity \in DOMAIN extracted /\ Truthy(extracted[missing_entity])
            THEN DictSet(context.entities, missing_entity, extracted[missing_entity])
            ELSE DictSet(context.entities, missing_entity, Strip(text)))

\* _handle_followup that clears the context only when the action has not failed, so
\* that a failed action can be tried again
_handle_followup_retrying(user_id, raw, text, fails) ==
    \E context \in {contexts[user_id]} :
        IF context.missing_entities = <<>>
        THEN \E routed \in {route(actions, context.intent, context.entities, fails)} :
             /\ contexts' = clear(contexts, user_id)
             /\ knowledge' = knowledge
             /\ Returns(user_id, raw, routed.response, routed.executed, "followup", context.intent)
        ELSE \E filled \in {FilledEntities(context, context.missing_entities[1], text)} :
             \E updated \in {update_entities([contexts EXCEPT ![user_id].entities = filled],
                                             user_id, filled)} :
             \E key \in {DictGet(filled, "key", None)}, value \in {DictGet(filled, "value", None)} :
             IF updated[user_id].missing_entities # <<>>
             THEN /\ contexts' = updated
                  /\ knowledge' = knowledge
                  /\ Returns(user_id, raw, prompt_for_entity(updated[user_id].missing_entities[1]),
                             <<>>, "followup", context.intent)
             ELSE IF context.intent = "learn_knowledge" /\ Truthy(key) /\ Truthy(value)
             THEN /\ contexts' = clear(updated, user_id)
                  /\ knowledge' = add_knowledge(knowledge, key, value)
                  /\ Returns(user_id, raw, Response("learned", "", key, value), <<>>,
                             "followup", context.intent)
             ELSE \E routed \in {route(actions, context.intent, updated[user_id].entities, fails)} :
                  /\ contexts' = IF routed.response.kind = "error" THEN updated
                                 ELSE clear(updated, user_id)
                  /\ knowledge' = knowledge
                  /\ Returns(user_id, raw, routed.response, routed.executed,
                             "followup", context.intent)

\* _handle_followup that commits the key of a learn conversation as soon as it has
\* it, before the value is given
_handle_followup_committing(user_id, raw, text, fails) ==
    \E context \in {contexts[user_id]} :
        IF context.missing_entities = <<>>
        THEN \E routed \in {route(actions, context.intent, context.entities, fails)} :
             /\ contexts' = clear(contexts, user_id)
             /\ knowledge' = knowledge
             /\ Returns(user_id, raw, routed.response, routed.executed, "followup", context.intent)
        ELSE \E filled \in {FilledEntities(context, context.missing_entities[1], text)} :
             \E updated \in {update_entities([contexts EXCEPT ![user_id].entities = filled],
                                             user_id, filled)} :
             \E key \in {DictGet(filled, "key", None)}, value \in {DictGet(filled, "value", None)} :
             IF updated[user_id].missing_entities # <<>>
             THEN /\ contexts' = updated
                  /\ knowledge' = IF context.intent = "learn_knowledge" /\ Truthy(key)
                                  THEN add_knowledge(knowledge, key, key)
                                  ELSE knowledge
                  /\ Returns(user_id, raw, prompt_for_entity(updated[user_id].missing_entities[1]),
                             <<>>, "followup", context.intent)
             ELSE IF context.intent = "learn_knowledge" /\ Truthy(key) /\ Truthy(value)
             THEN /\ contexts' = clear(updated, user_id)
                  /\ knowledge' = add_knowledge(knowledge, key, value)
                  /\ Returns(user_id, raw, Response("learned", "", key, value), <<>>,
                             "followup", context.intent)
             ELSE \E routed \in {route(actions, context.intent, updated[user_id].entities, fails)} :
                  /\ contexts' = clear(updated, user_id)
                  /\ knowledge' = knowledge
                  /\ Returns(user_id, raw, routed.response, routed.executed,
                             "followup", context.intent)

\* context is contexts[user_id]: the handler works on the stored object itself
_handle_followup(user_id, raw, text, fails) ==
    \E context \in {contexts[user_id]} :
        IF context.missing_entities = <<>>
        THEN \E routed \in {route(actions, context.intent, context.entities, fails)} :
             /\ contexts' = clear(contexts, user_id)
             /\ knowledge' = knowledge
             /\ Returns(user_id, raw, routed.response, routed.executed, "followup", context.intent)
        ELSE \E filled \in {FilledEntities(context, context.missing_entities[1], text)} :
             \E updated \in {update_entities([contexts EXCEPT ![user_id].entities = filled],
                                             user_id, filled)} :
             \E key \in {DictGet(filled, "key", None)}, value \in {DictGet(filled, "value", None)} :
             IF updated[user_id].missing_entities # <<>>
             THEN /\ contexts' = updated
                  /\ knowledge' = knowledge
                  /\ Returns(user_id, raw, prompt_for_entity(updated[user_id].missing_entities[1]),
                             <<>>, "followup", context.intent)
             ELSE IF context.intent = "learn_knowledge" /\ Truthy(key) /\ Truthy(value)
             THEN /\ contexts' = clear(updated, user_id)
                  /\ knowledge' = add_knowledge(knowledge, key, value)
                  /\ Returns(user_id, raw, Response("learned", "", key, value), <<>>,
                             "followup", context.intent)
             ELSE \E routed \in {route(actions, context.intent, updated[user_id].entities, fails)} :
                  /\ contexts' = clear(updated, user_id)
                  /\ knowledge' = knowledge
                  /\ Returns(user_id, raw, routed.response, routed.executed,
                             "followup", context.intent)

\* process_message that classifies the text first and takes it for a follow-up only
\* when it has no intent
process_message_classifying(user_id, raw, fails) ==
    \E text \in {Strip(raw)} :
        IF text = <<>>
        THEN /\ UNCHANGED <<contexts, knowledge>>
             /\ Returns(user_id, raw, Response("reprompt", "", <<>>, <<>>), <<>>, "empty", NoIntent)
        ELSE IF PendingFound(contexts, user_id, now) /\ IntentOf(text) = NoIntent
        THEN _handle_followup(user_id, raw, text, fails)
        ELSE _handle_new_message(user_id, raw, text, fails)

\* process_message that drops the user's state when the text is empty
process_message_clearing(user_id, raw, fails) ==
    \E text \in {Strip(raw)} :
        IF text = <<>>
        THEN /\ contexts' = clear(contexts, user_id)
             /\ knowledge' = knowledge
             /\ Returns(user_id, raw, Response("reprompt", "", <<>>, <<>>), <<>>, "empty", NoIntent)
        ELSE IF PendingFound(contexts, user_id, now)
        THEN _handle_followup(user_id, raw, text, fails)
        ELSE _handle_new_message(user_id, raw, text, fails)

process_message(user_id, raw, fails) ==
    \E text \in {Strip(raw)} :
        IF text = <<>>
        THEN /\ UNCHANGED <<contexts, knowledge>>
             /\ Returns(user_id, raw, Response("reprompt", "", <<>>, <<>>), <<>>, "empty", NoIntent)
        ELSE IF PendingFound(contexts, user_id, now)
        THEN _handle_followup(user_id, raw, text, fails)
        ELSE _handle_new_message(user_id, raw, text, fails)

(***************************************************************************)
(* The state machine                                                       *)
(***************************************************************************)
\* the sections of the configuration in the order _load_channels reads them, each
\* with the credential field its channel is made with
ChannelSections ==
    << [name |-> "telegram", field |-> "api_token"],
       [name |-> "whatsapp", field |-> "api_key"],
       [name |-> "mattermost", field |-> "webhook_url"] >>

\* self.channels["internal"] = InternalChannel()
WithInternal(chans) == DictSet(chans, "internal", None)

RECURSIVE LoadSections(_, _, _)
\* the channels when the try block is left, and whether a KeyError left it: the
\* sections from the k-th on are read into chans
LoadSections(document, chans, k) ==
    IF k > Len(ChannelSections) THEN [channels |-> chans, raised |-> FALSE]
    ELSE IF ChannelSections[k].name \notin DOMAIN document
    THEN LoadSections(document, chans, k + 1)
    ELSE IF ChannelSections[k].field \notin DOMAIN document[ChannelSections[k].name]
    THEN [channels |-> chans, raised |-> TRUE]
    ELSE LoadSections(document,
                      DictSet(chans, ChannelSections[k].name,
                              document[ChannelSections[k].name][ChannelSections[k].field]),
                      k + 1)

\* self.channels after _load_channels(config_path); each channel is the credential
\* it was made with. Both except clauses add the internal channel to what is there
_load_channels(chans, config) ==
    IF ~config.found \/ ~config.valid THEN WithInternal(chans)
    ELSE WithInternal(LoadSections(config.document, chans, 1).channels)

\* the stores as the constructors leave them
Init ==
    /\ turns = 0
    /\ actions = <<>>
    /\ contexts = EmptyDict
    /\ knowledge = <<>>
    /\ now = 0
    /\ last = NoCall("init")
    /\ threads = NoThreads
    /\ channels = WithInternal(EmptyDict)

\* action_router.register(action), as MainBot._register_skills does
Register(action) ==
    /\ Len(actions) < MaxActions
    /\ action \notin Range(actions)
    /\ actions' = Append(actions, action)
    /\ last' = NoCall("register")
    /\ UNCHANGED <<turns, contexts, knowledge, now, threads, channels>>

\* the minutes that pass between two calls: the timeout exactly, or one more
Delays == {timeout_minutes, timeout_minutes + 1}

\* time passes
Tick(minutes) ==
    /\ now + minutes <= MaxTime
    /\ now' = now + minutes
    /\ last' = NoCall("tick")
    /\ UNCHANGED <<turns, actions, contexts, knowledge, threads, channels>>

\* bot.process_message(user_id, text)
ProcessMessage(user_id, text, fails) ==
    /\ turns < MaxTurns
    /\ turns' = turns + 1
    /\ process_message(user_id, text, fails)
    /\ UNCHANGED <<actions, now, threads, channels>>

\* context_manager.cleanup_expired()
CleanupExpired ==
    /\ contexts' = cleanup_expired(contexts, now)
    /\ last' = [NoCall("cleanup_expired") EXCEPT
                    !.count = Cardinality(expired_users(contexts, now)),
                    !.store = contexts]
    /\ UNCHANGED <<turns, actions, knowledge, now, threads, channels>>

Next ==
    \/ \E action \in ActionPool : Register(action)
    \/ \E minutes \in Delays : Tick(minutes)
    \/ \E user_id \in Users, text \in Texts, fails \in BOOLEAN : ProcessMessage(user_id, text, fails)
    \/ CleanupExpired

Spec == Init /\ [][Next]_vars

(***************************************************************************)
(* The action router on its own: actions are registered, intents routed    *)
(* and required entities asked for                                         *)
(***************************************************************************)
\* a third implementation of BaseAction: it accepts two intents and needs nothing
HelpAction ==
    [name |-> "HelpAction", handles |-> {"get_weather", "get_help"},
     required |-> <<>>, may_fail |-> TRUE]

RouterPool == ActionPool \cup {HelpAction}

RouterIntents == {"get_weather", "get_help", "ask_knowledge"}

RouterParams ==
    { EmptyDict,
      DictSet(EmptyDict, "location", <<"T","o","k","y","o">>),
      DictSet(DictSet(EmptyDict, "location", <<"T","o","k","y","o">>), "date", <<"M","a","y">>) }

\* action_router.route(intent, params)
Route(intent, params, fails) ==
    \E routed \in {route(actions, intent, params, fails)} :
        /\ last' = [NoCall("route") EXCEPT
                        !.intent = intent,
                        !.response = routed.response,
                        !.raised = (routed.response.kind = "raise"),
                        !.executed = routed.executed]
        /\ UNCHANGED <<turns, actions, contexts, knowledge, now, threads, channels>>

\* action_router.get_required_entities(intent); the list is the a of the response
GetRequiredEntities(intent) ==
    /\ last' = [NoCall("get_required_entities") EXCEPT
                    !.intent = intent,
                    !.response = Response("required", "", get_required_entities(actions, intent), <<>>)]
    /\ UNCHANGED <<turns, actions, contexts, knowledge, now, threads, channels>>

RouterNext ==
    \/ \E action \in RouterPool : Register(action)
    \/ \E intent \in RouterIntents, params \in RouterParams, fails \in BOOLEAN :
            Route(intent, params, fails)
    \/ \E intent \in RouterIntents : GetRequiredEntities(intent)

RouterSpec == Init /\ [][RouterNext]_vars

(***************************************************************************)
(* The knowledge engine on its own: facts are added, questions asked and   *)
(* keys looked up.  In last, text is the key or the question, response.a   *)
(* the result of query or get and response.b the value given to            *)
(* add_knowledge.                                                          *)
(***************************************************************************)
MaxAdds == 3

\* keys and questions: one a substring of another, two that differ in case and
\* padding only, one that contains two keys, one that is blank
KnowledgeKeys == { <<"x">>, <<" ","X">>, <<"x","y">>, <<"y">> }

Questions == KnowledgeKeys \cup { <<"x","y","z">>, <<"q">>, <<" ">> }

KnowledgeValues == { <<"5">>, <<" ","6"," ">> }

\* knowledge.add_knowledge(key, value)
AddKnowledge(key, value) ==
    /\ turns < MaxAdds
    /\ turns' = turns + 1
    /\ knowledge' = add_knowledge(knowledge, key, value)
    /\ last' = [NoCall("add_knowledge") EXCEPT
                    !.text = key,
                    !.response = Response("", "", <<>>, value),
                    !.known = knowledge]
    /\ UNCHANGED <<actions, contexts, now, threads, channels>>

\* knowledge.query(question)
Query(question) ==
    /\ last' = [NoCall("query") EXCEPT
                    !.text = question,
                    !.response = Response("text", "", query(knowledge, question), <<>>),
                    !.known = knowledge]
    /\ UNCHANGED <<turns, actions, contexts, knowledge, now, threads, channels>>

\* knowledge.get(key)
Get(key) ==
    /\ last' = [NoCall("get") EXCEPT
                    !.text = key,
                    !.response = Response("value", "", get(knowledge, key), <<>>),
                    !.known = knowledge]
    /\ UNCHANGED <<turns, actions, contexts, knowledge, now, threads, channels>>

KnowledgeNext ==
    \/ \E key \in KnowledgeKeys, value \in KnowledgeValues : AddKnowledge(key, value)
    \/ \E question \in Questions : Query(question)
    \/ \E key \in Questions : Get(key)

KnowledgeSpec == Init /\ [][KnowledgeNext]_vars

(***************************************************************************)
(* The context manager on its own, with two users: contexts are stored,    *)
(* asked for, updated, cleared and swept while time passes                 *)
(***************************************************************************)
MaxCalls == 3

ContextUsers == {"u1", "u2"}

\* what set_pending is given: one extracted name without value, three missing names
PendingEntities == DictSet(EmptyDict, "location", None)

PendingMissing == <<"location", "date", "time">>

\* what update_entities is given: a value for the second missing name; a value for
\* the first and an empty one for the third; a value for a name that is not missing
NewEntities ==
    { DictSet(EmptyDict, "date", <<"M","a","y">>),
      DictSet(DictSet(EmptyDict, "location", <<"T","o","k","y","o">>), "time", <<>>),
      DictSet(EmptyDict, "guests", <<"2">>) }

\* context_manager.set_pending(user_id, intent, entities, missing)
SetPending(user_id) ==
    /\ turns < MaxCalls
    /\ turns' = turns + 1
    /\ contexts' = set_pending(contexts, user_id, "get_weather", PendingEntities,
                               PendingMissing, now)
    /\ last' = [NoCall("set_pending") EXCEPT
                    !.user = user_id, !.store = contexts, !.args = PendingEntities]
    /\ UNCHANGED <<actions, knowledge, now, threads, channels>>

\* context_manager.get_pending(user_id)
GetPending(user_id) ==
    /\ contexts' = get_pending(contexts, user_id, now)
    /\ last' = [NoCall("get_pending") EXCEPT
                    !.user = user_id, !.store = contexts,
                    !.pending = IF PendingFound(contexts, user_id, now) THEN "live" ELSE "none"]
    /\ UNCHANGED <<turns, actions, knowledge, now, threads, channels>>

\* context_manager.update_entities(user_id, new_entities)
UpdateEntities(user_id, new_entities) ==
    /\ turns < MaxCalls
    /\ turns' = turns + 1
    /\ contexts' = update_entities(contexts, user_id, new_entities)
    /\ last' = [NoCall("update_entities") EXCEPT
                    !.user = user_id, !.store = contexts, !.args = new_entities]
    /\ UNCHANGED <<actions, knowledge, now, threads, channels>>

\* context_manager.clear(user_id)
Clear(user_id) ==
    /\ contexts' = clear(contexts, user_id)
    /\ last' = [NoCall("clear") EXCEPT !.user = user_id, !.store = contexts]
    /\ UNCHANGED <<turns, actions, knowledge, now, threads, channels>>

ContextNext ==
    \/ \E user_id \in ContextUsers : SetPending(user_id)
    \/ \E user_id \in ContextUsers : GetPending(user_id)
    \/ \E user_id \in ContextUsers, new_entities \in NewEntities :
            UpdateEntities(user_id, new_entities)
    \/ \E user_id \in ContextUsers : Clear(user_id)
    \/ CleanupExpired
    \/ \E minutes \in Delays : Tick(minutes)

ContextSpec == Init /\ [][ContextNext]_vars

(***************************************************************************)
(* Two callers of process_message at the same time, for one user whose     *)
(* conversation is pending.  Nothing in MainBot or ContextManager takes a  *)
(* lock, so the statements of the two calls interleave; a step is one      *)
(* statement that reads or writes the store or the context object.  Both   *)
(* calls get the same ConversationContext object from get_pending:         *)
(* threads.context is that object, threads.stored says whether it is still *)
(* contexts[user], and threads.calls has for each caller its position, its *)
(* text, its local missing_entity, its response and its execute calls.     *)
(***************************************************************************)
Threads == {"t1", "t2"}

CollectingUser == "u1"

\* "Tokyo" and "May": texts without intent, given as values of the missing names
ThreadTexts == { <<"T","o","k","y","o">>, <<"M","a","y">> }

\* the context that the message "What's the weather" leaves when the action is
\* registered alone
CollectingContext(action) ==
    ConversationContext(CollectingUser, "get_weather",
                        extract_entities(T_weather, "get_weather"),
                        get_missing_entities(action.required,
                                             extract_entities(T_weather, "get_weather")),
                        0)

ThreadCall(text) ==
    [pc |-> "get_pending", text |-> text, missing_entity |-> "",
     response |-> Response("", "", <<>>, <<>>), executed |-> <<>>]

ThreadInit ==
    /\ turns = 0
    /\ channels = WithInternal(EmptyDict)
    /\ knowledge = <<>>
    /\ now = 0
    /\ last = NoCall("init")
    /\ \E action \in ActionPool :
        /\ actions = <<action>>
        /\ contexts = DictSet(EmptyDict, CollectingUser, CollectingContext(action))
        /\ \E texts \in [Threads -> ThreadTexts] :
            threads = [calls   |-> [t \in Threads |-> ThreadCall(texts[t])],
                       context |-> CollectingContext(action),
                       stored  |-> TRUE]

\* the store after a write to the context object
Written(context) ==
    IF threads.stored THEN [contexts EXCEPT ![CollectingUser] = context] ELSE contexts

\* process_message up to the call of the handler: get_pending finds the context, or
\* finds none and the message is handled as a new one
ThreadGetPending(t) ==
    /\ threads.calls[t].pc = "get_pending"
    /\ IF PendingFound(contexts, CollectingUser, now)
       THEN /\ threads' = [threads EXCEPT !.calls[t].pc = "missing_entity"]
            /\ UNCHANGED <<contexts, knowledge, last>>
       ELSE /\ _handle_new_message(CollectingUser, threads.calls[t].text,
                                   Strip(threads.calls[t].text), FALSE)
            /\ threads' = [threads EXCEPT !.calls[t].pc = "done",
                                          !.calls[t].response = last'.response]
    /\ UNCHANGED <<turns, actions, now, channels>>

\* missing_entity = context.missing_entities[0] if context.missing_entities else None
ThreadMissingEntity(t) ==
    /\ threads.calls[t].pc = "missing_entity"
    /\ threads' = IF threads.context.missing_entities = <<>>
                  THEN [threads EXCEPT !.calls[t].pc = "clear"]
                  ELSE [threads EXCEPT !.calls[t].pc = "fill",
                                       !.calls[t].missing_entity =
                                            threads.context.missing_entities[1]]
    /\ UNCHANGED <<turns, actions, contexts, knowledge, now, last, channels>>

\* context.entities[missing_entity] = the value found in the text
ThreadFill(t) ==
    /\ threads.calls[t].pc = "fill"
    /\ \E filled \in {FilledEntities(threads.context, threads.calls[t].missing_entity,
                                      threads.calls[t].text)} :
        /\ threads' = [threads EXCEPT !.calls[t].pc = "update_entities",
                                      !.context.entities = filled]
        /\ contexts' = Written([threads.context EXCEPT !.entities = filled])
    /\ UNCHANGED <<turns, actions, knowledge, now, last, channels>>

\* context_manager.update_entities(user_id, context.entities)
ThreadUpdateEntities(t) ==
    /\ threads.calls[t].pc = "update_entities"
    /\ contexts' = update_entities(contexts, CollectingUser, threads.context.entities)
    /\ threads' = [threads EXCEPT
                      !.calls[t].pc = "missing_entities",
                      !.context = IF threads.stored THEN contexts'[CollectingUser] ELSE @]
    /\ UNCHANGED <<turns, actions, knowledge, now, last, channels>>

\* if context.missing_entities: return the prompt for the first of them
ThreadMissingEntities(t) ==
    /\ threads.calls[t].pc = "missing_entities"
    /\ threads' = IF threads.context.missing_entities # <<>>
                  THEN [threads EXCEPT
                          !.calls[t].pc = "done",
                          !.calls[t].response =
                              prompt_for_entity(threads.context.missing_entities[1])]
                  ELSE [threads EXCEPT !.calls[t].pc = "clear"]
    /\ UNCHANGED <<turns, actions, contexts, knowledge, now, last, channels>>

\* context_manager.clear(user_id)
ThreadClear(t) ==
    /\ threads.calls[t].pc = "clear"
    /\ contexts' = clear(contexts, CollectingUser)
    /\ threads' = [threads EXCEPT !.calls[t].pc = "route", !.stored = FALSE]
    /\ UNCHANGED <<turns, actions, knowledge, now, last, channels>>

\* the end of _handle_followup: the fact is learned or the action executed, with
\* the entities the context object has now
ThreadRoute(t, fails) ==
    /\ threads.calls[t].pc = "route"
    /\ \E key \in {DictGet(threads.context.entities, "key", None)},
          value \in {DictGet(threads.context.entities, "value", None)},
          routed \in {route(actions, threads.context.intent, threads.context.entities, fails)} :
        IF /\ threads.calls[t].missing_entity # ""
           /\ threads.context.intent = "learn_knowledge"
           /\ Truthy(key) /\ Truthy(value)
        THEN /\ knowledge' = add_knowledge(knowledge, key, value)
             /\ threads' = [threads EXCEPT
                              !.calls[t].pc = "done",
                              !.calls[t].response = Response("learned", "", key, value)]
        ELSE /\ knowledge' = knowledge
             /\ threads' = [threads EXCEPT
                              !.calls[t].pc = "done",
                              !.calls[t].response = routed.response,
                              !.calls[t].executed = routed.executed]
    /\ UNCHANGED <<turns, actions, contexts, now, last, channels>>

ThreadNext ==
    \/ \E t \in Threads : ThreadGetPending(t)
    \/ \E t \in Threads : ThreadMissingEntity(t)
    \/ \E t \in Threads : ThreadFill(t)
    \/ \E t \in Threads : ThreadUpdateEntities(t)
    \/ \E t \in Threads : ThreadMissingEntities(t)
    \/ \E t \in Threads : ThreadClear(t)
    \/ \E t \in Threads, fails \in BOOLEAN : ThreadRoute(t, fails)

ThreadSpec == ThreadInit /\ [][ThreadNext]_vars

(***************************************************************************)
(* The bot with two users: the messages of one arrive between the messages *)
(* of the other.                                                           *)
(***************************************************************************)
\* a message that starts a conversation, one that fills a slot, one that starts a
\* learn conversation, and an empty one
UsersTexts == {T_weather, T_in_tokyo, T_learn_this, T_blank}

UsersNext ==
    \/ \E action \in ActionPool : Register(action)
    \/ \E minutes \in Delays : Tick(minutes)
    \/ \E user_id \in ContextUsers, text \in UsersTexts, fails \in BOOLEAN :
            ProcessMessage(user_id, text, fails)

UsersSpec == Init /\ [][UsersNext]_vars

(***************************************************************************)
(* The channels of the bot: made from a configuration file when the bot is *)
(* constructed, and looked up by name when a message is sent.              *)
(***************************************************************************)
\* the documents with any of the three sections, each with or without its credential
Documents ==
    UNION { { [n \in {ChannelSections[k].name : k \in present} |->
                 LET k == CHOOSE j \in present : ChannelSections[j].name = n
                 IN IF k \in complete
                    THEN DictSet(EmptyDict, ChannelSections[k].field, <<"s">>)
                    ELSE EmptyDict]
              : complete \in SUBSET present }
            : present \in SUBSET DOMAIN ChannelSections }

\* no config_path; a path to no file; a file that is not JSON; a file with a document
ConfigFiles ==
    {NoConfig, ConfigFile(TRUE, FALSE, FALSE, EmptyDict), ConfigFile(TRUE, TRUE, FALSE, EmptyDict)}
    \cup {ConfigFile(TRUE, TRUE, TRUE, document) : document \in Documents}

\* MainBot.__init__ at "self.channels = {}", about to read its config_path
ChannelsInit ==
    /\ turns = 0
    /\ actions = <<>>
    /\ contexts = EmptyDict
    /\ knowledge = <<>>
    /\ now = 0
    /\ threads = NoThreads
    /\ channels = EmptyDict
    /\ \E config \in ConfigFiles : last = [NoCall("config_path") EXCEPT !.config = config]

\* the rest of MainBot.__init__
Construct ==
    /\ last.op = "config_path"
    /\ channels' = IF last.config.path THEN _load_channels(channels, last.config)
                   ELSE WithInternal(channels)
    /\ last' = [last EXCEPT !.op = "__init__"]
    /\ UNCHANGED <<turns, actions, contexts, knowledge, now, threads>>

\* bot.send_message(channel_name, user_id, message): a failure of the channel is
\* caught and reported, as is a name that is not a channel
SendMessage(channel_name, fails) ==
    /\ last.op \in {"__init__", "send_message"}
    /\ last' = [last EXCEPT !.op = "send_message",
                            !.response = Response(IF channel_name \notin DOMAIN channels
                                                  THEN "unknown_channel"
                                                  ELSE IF fails THEN "send_failed" ELSE "sent",
                                                  channel_name, <<>>, <<>>)]
    /\ UNCHANGED <<turns, actions, contexts, knowledge, now, threads, channels>>

ChannelsNext ==
    \/ Construct
    \/ \E channel_name \in {ChannelSections[k].name : k \in DOMAIN ChannelSections}
                             \cup {"internal", "console"}, fails \in BOOLEAN :
            SendMessage(channel_name, fails)

ChannelsSpec == ChannelsInit /\ [][ChannelsNext]_vars

(***************************************************************************)
(* A sweep at the same time as another call of the context manager.  No    *)
(* method of ContextManager takes a lock, so the statements of the two     *)
(* interleave.  threads.sweep is the call of cleanup_expired: its          *)
(* position, its list expired_users, the users it has deleted, and the     *)
(* count it returned; threads.call is the other call: its method, its      *)
(* user and its position.  raised says that a KeyError left the call.      *)
(***************************************************************************)
\* contexts made at 0 and at timeout_minutes, looked at when the first are expired
\* and the second are not
SweepInit ==
    /\ turns = 0
    /\ channels = WithInternal(EmptyDict)
    /\ actions = <<>>
    /\ knowledge = <<>>
    /\ now = 2 * timeout_minutes
    /\ last = NoCall("init")
    /\ \E stored \in (SUBSET ContextUsers) \ {{}} :
       \E made \in [stored -> {0, timeout_minutes}] :
        contexts = [u \in stored |->
                      ConversationContext(u, "get_weather", PendingEntities, PendingMissing, made[u])]
    /\ \E method \in {"get_pending", "update_entities", "clear"}, user_id \in ContextUsers :
        threads = [sweep |-> [pc |-> "expired_users", expired_users |-> {}, deleted |-> {},
                              count |-> 0, raised |-> FALSE],
                   call  |-> [pc |-> "in", method |-> method, user_id |-> user_id,
                              raised |-> FALSE]]

\* expired_users = [user_id for user_id, ctx in self.contexts.items() if ctx.is_expired(...)]
SweepExpiredUsers ==
    /\ threads.sweep.pc = "expired_users"
    /\ threads' = [threads EXCEPT !.sweep.pc = "del",
                                  !.sweep.expired_users = expired_users(contexts, now)]
    /\ UNCHANGED <<turns, actions, contexts, knowledge, now, last, channels>>

\* del self.contexts[user_id] for the next user of the list: a KeyError when the
\* entry is not there any more
SweepDel(user_id) ==
    /\ threads.sweep.pc = "del"
    /\ user_id \in threads.sweep.expired_users \ threads.sweep.deleted
    /\ IF user_id \in DOMAIN contexts
       THEN /\ contexts' = [u \in (DOMAIN contexts) \ {user_id} |-> contexts[u]]
            /\ threads' = [threads EXCEPT !.sweep.deleted = @ \cup {user_id}]
       ELSE /\ contexts' = contexts
            /\ threads' = [threads EXCEPT !.sweep.pc = "done", !.sweep.raised = TRUE]
    /\ UNCHANGED <<turns, actions, knowledge, now, last, channels>>

\* return len(expired_users)
SweepReturn ==
    /\ threads.sweep.pc = "del"
    /\ threads.sweep.expired_users = threads.sweep.deleted
    /\ threads' = [threads EXCEPT !.sweep.pc = "done",
                                  !.sweep.count = Cardinality(threads.sweep.expired_users)]
    /\ UNCHANGED <<turns, actions, contexts, knowledge, now, last, channels>>

\* "if user_id not in self.contexts" of get_pending, "if user_id in self.contexts"
\* of update_entities and of clear (also the clear that get_pending calls)
CallIn ==
    /\ threads.call.pc = "in"
    /\ threads' = [threads EXCEPT !.call.pc =
                        IF threads.call.user_id \notin DOMAIN contexts THEN "done"
                        ELSE IF threads.call.method = "get_pending" THEN "is_expired"
                        ELSE threads.call.method]
    /\ UNCHANGED <<turns, actions, contexts, knowledge, now, last, channels>>

\* the statement of the call that follows the test: each looks up
\* self.contexts[user_id], a KeyError when the entry is not there any more
CallStatement ==
    /\ threads.call.pc \in {"is_expired", "update_entities", "clear"}
    /\ IF threads.call.user_id \notin DOMAIN contexts
       THEN /\ contexts' = contexts
            /\ threads' = [threads EXCEPT !.call.pc = "done", !.call.raised = TRUE]
       ELSE IF threads.call.pc = "is_expired"
       THEN /\ contexts' = contexts
            /\ threads' = [threads EXCEPT
                              !.call.pc = IF is_expired(contexts[threads.call.user_id],
                                                        timeout_minutes, now)
                                          THEN "in" ELSE "done",
                              !.call.method = "clear"]
       ELSE IF threads.call.pc = "update_entities"
       THEN /\ contexts' = update_entities(contexts, threads.call.user_id,
                                           DictSet(EmptyDict, "date", <<"M","a","y">>))
            /\ threads' = [threads EXCEPT !.call.pc = "done"]
       ELSE /\ contexts' = clear(contexts, threads.call.user_id)
            /\ threads' = [threads EXCEPT !.call.pc = "done"]
    /\ UNCHANGED <<turns, actions, knowledge, now, last, channels>>

SweepNext ==
    \/ SweepExpiredUsers
    \/ \E user_id \in ContextUsers : SweepDel(user_id)
    \/ SweepReturn
    \/ CallIn
    \/ CallStatement

SweepSpec == SweepInit /\ [][SweepNext]_vars

(***************************************************************************)
(* The intent engine on its own: a text is given and classified            *)
(***************************************************************************)
MaxPhrases == 2

\* pieces of user text: keywords of the three intents in both letter cases, the
\* assignment marker alone and inside a word, the first message of the demo, and
\* the empty piece, which gives blank texts and texts with blanks around them
Phrases ==
    { <<>>, T_weather, <<"W","h","a","t","'","s">>, <<"W","H","A","T"," ","I","S">>,
      <<"W","e","a","t","h","e","r">>, <<"l","e","a","r","n">>, <<"T","o","k","y","o">>,
      <<"=">>, <<"a","=","b">>, <<"X","=">> }

RECURSIVE PhraseTexts(_)
\* the texts made of at least one and at most n phrases with a space in between
PhraseTexts(n) ==
    IF n = 1 THEN Phrases
    ELSE PhraseTexts(n - 1)
         \cup {t \o <<" ">> \o p : t \in PhraseTexts(n - 1), p \in Phrases}

ProbeTexts == PhraseTexts(MaxPhrases)

TextInit ==
    /\ turns = 0
    /\ actions = <<>>
    /\ contexts = EmptyDict
    /\ knowledge = <<>>
    /\ now = 0
    /\ threads = NoThreads
    /\ channels = WithInternal(EmptyDict)
    /\ \E text \in ProbeTexts : last = [NoCall("text") EXCEPT !.text = text]

\* intent_engine.detect_intent(text)
DetectIntent ==
    /\ last.op = "text"
    /\ last' = [last EXCEPT !.op = "detect_intent", !.intent = detect_intent(last.text)]
    /\ UNCHANGED <<turns, actions, contexts, knowledge, now, threads, channels>>

\* intent_engine.extract_entities(text, intent)
ExtractEntities(intent) ==
    /\ last.op = "text"
    /\ last' = [last EXCEPT !.op = "extract_entities", !.intent = intent,
                            !.args = extract_entities(last.text, intent)]
    /\ UNCHANGED <<turns, actions, contexts, knowledge, now, threads, channels>>

TextNext ==
    \/ DetectIntent
    \/ \E intent \in {"get_weather", "learn_knowledge", "ask_knowledge"} : ExtractEntities(intent)

TextSpec == TextInit /\ [][TextNext]_vars

(***************************************************************************)
(* Properties                                                              *)
(***************************************************************************)
\* the last call processed a message with a text that is not blank
NonEmptyMessage == last.op = "message" /\ Strip(last.text) # <<>>

\* the user had a stored state when the call was made, and it was within its TTL
InTTL == last.before # <<>> /\ now - last.before[1].timestamp <= timeout_minutes

\* the intents that are routed to the registry
RoutedIntents == Intents \ {"ask_knowledge", "learn_knowledge"}

\* the last message was the first of a slot-filling conversation: it was handled as a
\* new message, its intent has required entities and its text supplies none of them
C1_Initial ==
    LET text     == Strip(last.text)
        required == get_required_entities(actions, IntentOf(text))
        supplied == EntitiesOf(text, IntentOf(text))
    IN (/\ NonEmptyMessage
        /\ ~InTTL
        /\ IntentOf(text) \in RoutedIntents
        /\ required # <<>>
        /\ \A n \in Range(required) : n \notin DOMAIN supplied \/ ~Truthy(supplied[n]))
       => /\ last.user \in DOMAIN contexts
          /\ contexts[last.user].intent = IntentOf(text)
          /\ contexts[last.user].missing_entities = required
          /\ contexts[last.user].timestamp = now

\* the last message was a non-empty follow-up within the TTL: it removed the first
\* missing name and no other, and the state was deleted when that was the last name
C1_Followup ==
    (NonEmptyMessage /\ InTTL)
    => IF Len(last.before[1].missing_entities) > 1
       THEN /\ last.user \in DOMAIN contexts
            /\ contexts[last.user].missing_entities = Tail(last.before[1].missing_entities)
       ELSE last.user \notin DOMAIN contexts

\* C1: slot-filling termination. A message that starts a conversation for an intent
\* whose first matching action requires N entities, none supplied, stores a state with
\* all N names missing; every non-empty follow-up within the TTL removes exactly the
\* first missing name, so the user is Collecting after the first N-1 follow-ups and
\* Idle (no stored state) after exactly the N-th.
C1_SlotFillingTermination == C1_Initial /\ C1_Followup

\* the third message completes a conversation for TripAction (N = 2): the first asked
\* for the weather without a location, the second gave the location "in Tokyo"
C1_Witness ==
    /\ turns = 3
    /\ last.op = "message" /\ last.path = "followup"
    /\ last.user \notin DOMAIN contexts
    /\ Len(last.executed) = 1
    /\ last.executed[1].action = "TripAction"
    /\ last.executed[1].params["location"] = <<"T","o","k","y","o">>

\* C2: process_message returns a text response and lets no failure escape, for every
\* input text and every reachable state of the stores.
C2_NoFailureEscapes == last.op = "message" => (~last.raised /\ last.response.kind # "raise")

\* the action of the pool with that name
ActionNamed(name) == CHOOSE a \in ActionPool : a.name = name

\* C3: the orchestrator calls an action's execute only with an entity set in which
\* every name of that action's required list has a non-empty value.
C3_ExecuteOnlyComplete ==
    \A i \in DOMAIN last.executed :
        \A n \in Range(ActionNamed(last.executed[i].action).required) :
            /\ n \in DOMAIN last.executed[i].params
            /\ Truthy(last.executed[i].params[n])

\* an action is executed at once from Idle, by the message that found an expired state
C3_Witness ==
    /\ last.op = "message" /\ last.path = "new" /\ last.pending = "expired"
    /\ Len(last.executed) = 1

\* the user had a stored state when the call was made, and it was past its TTL
PastTTL == last.before # <<>> /\ now - last.before[1].timestamp > timeout_minutes

\* the stored state of the user, if any, was made by the last message alone
FreshState ==
    last.user \in DOMAIN contexts
    => /\ contexts[last.user].timestamp = now
       /\ contexts[last.user].intent = IntentOf(Strip(last.text))
       /\ \A n \in DOMAIN contexts[last.user].entities :
            /\ n \in DOMAIN EntitiesOf(Strip(last.text), IntentOf(Strip(last.text)))
            /\ contexts[last.user].entities[n] =
                    EntitiesOf(Strip(last.text), IntentOf(Strip(last.text)))[n]

\* C4: get_pending returns the stored state when now - created_at <= timeout (the
\* message is handled as a follow-up of that state), and when now - created_at >
\* timeout it deletes the entry and returns none, so that the message is handled on
\* the Idle path: classified afresh, not taken as a slot value.
C4_GetPendingExpiry ==
    /\ (NonEmptyMessage /\ InTTL)
       => /\ last.pending = "live"
          /\ last.path = "followup"
          /\ last.intent = last.before[1].intent
    /\ (NonEmptyMessage /\ PastTTL)
       => /\ last.pending = "expired"
          /\ last.path = "new"
          /\ last.intent = IntentOf(Strip(last.text))
          /\ FreshState

\* a message found an expired state: it was not understood and the state is gone
C4_Witness ==
    /\ NonEmptyMessage /\ PastTTL
    /\ last.response.kind = "not_understood"
    /\ last.user \notin DOMAIN contexts

\* C5: the TTL is measured from the creation by set_pending only. A follow-up leaves
\* created_at as it was, and a message that arrives after created_at + timeout loses
\* the whole state, the slots filled by earlier follow-ups included.
C5_TTLFromCreation ==
    /\ (NonEmptyMessage /\ InTTL /\ last.user \in DOMAIN contexts)
       => contexts[last.user].timestamp = last.before[1].timestamp
    /\ (NonEmptyMessage /\ PastTTL) => (last.path = "new" /\ FreshState)

\* a learn conversation whose key a follow-up had filled was lost to the timeout
C5_Witness ==
    /\ NonEmptyMessage /\ PastTTL
    /\ last.before[1].intent = "learn_knowledge"
    /\ last.before[1].missing_entities = <<"value">>
    /\ "key" \in DOMAIN last.before[1].entities
    /\ last.user \notin DOMAIN contexts

\* every name in missing is absent from entities or has an empty value there
MissingUnfilled(context) ==
    \A n \in Range(context.missing_entities) :
        n \notin DOMAIN context.entities \/ ~Truthy(context.entities[n])

\* C6: in every stored state each name in missing is absent from entities or has an
\* empty value there; and a message that enters or remains in Collecting returns the
\* prompt for the first element of the stored missing list (and only such a message
\* returns a prompt).
C6_MissingAndPrompt ==
    /\ \A u \in DOMAIN contexts : MissingUnfilled(contexts[u])
    /\ (NonEmptyMessage /\ last.user \in DOMAIN contexts)
       => /\ contexts[last.user].missing_entities # <<>>
          /\ last.response.kind = "prompt"
          /\ last.response.name = contexts[last.user].missing_entities[1]
    /\ (last.op = "message" /\ last.response.kind = "prompt")
       => /\ NonEmptyMessage
          /\ last.user \in DOMAIN contexts

\* a follow-up filled the location; the date is still missing and is asked for
C6_Witness ==
    /\ NonEmptyMessage /\ last.path = "followup"
    /\ last.user \in DOMAIN contexts
    /\ contexts[last.user].missing_entities = <<"date">>
    /\ Truthy(contexts[last.user].entities["location"])
    /\ last.response = prompt_for_entity("date")

\* C7: for every text that contains the assignment marker "=", detect_intent returns
\* learn_knowledge, whatever other intent patterns the text also matches and whatever
\* its letter case.
C7_AssignmentPriority ==
    (last.op = "detect_intent" /\ Contains(last.text, <<"=">>))
    => last.intent = "learn_knowledge"

\* a text in upper case with the marker that the patterns alone give to ask_knowledge
C7_Witness ==
    /\ last.op = "detect_intent"
    /\ Contains(last.text, <<"=">>)
    /\ Contains(last.text, <<"W","H","A","T"," ","I","S">>)
    /\ FirstMatchingIntent(Strip(Lower(last.text))) = "ask_knowledge"
    /\ last.intent = "learn_knowledge"

\* the last message was handled on the Idle path with the given intent
IdleWith(intent) == NonEmptyMessage /\ last.path = "new" /\ last.intent = intent

\* C8: on the Idle path with intent ask_knowledge the response is query applied to
\* the extracted key when extraction yields one and to the raw text when it yields
\* none; no conversation state is created (a query leaves the knowledge as it is, so
\* the answer is stated on the knowledge after the call).
C8_AskQueriesKeyOrText ==
    IdleWith("ask_knowledge")
    => LET text == Strip(last.text)
           key  == _extract_question_key(text)
       IN /\ ~last.raised
          /\ last.response =
                Response("text", "", query(knowledge, IF key = None THEN text ELSE key), <<>>)
          /\ last.user \notin DOMAIN contexts

\* what extract_entities finds in the last message for learn_knowledge
LearnKey == DictGet(EntitiesOf(Strip(last.text), "learn_knowledge"), "key", None)

LearnValue == DictGet(EntitiesOf(Strip(last.text), "learn_knowledge"), "value", None)

\* the last message was a non-empty follow-up, within the TTL, of a learn conversation
\* with the given missing list
LearnFollowup(missing) ==
    /\ NonEmptyMessage /\ InTTL
    /\ last.before[1].intent = "learn_knowledge"
    /\ last.before[1].missing_entities = missing

\* C9: multi-turn learn. A learn_knowledge message that yields no key stores a state
\* with missing = [key, value]; the next non-empty message (within the TTL) is taken
\* verbatim, trimmed, as the key and the one after as the value; on that last turn the
\* pair is committed to the knowledge, the confirmation is returned (never the
\* registry's "no action" message) and the state is cleared.
C9_MultiTurnLearn ==
    /\ (IdleWith("learn_knowledge") /\ ~Truthy(LearnKey))
       => /\ last.user \in DOMAIN contexts
          /\ contexts[last.user].intent = "learn_knowledge"
          /\ contexts[last.user].missing_entities = <<"key", "value">>
          /\ last.response = prompt_for_entity("key")
    /\ LearnFollowup(<<"key", "value">>)
       => /\ last.user \in DOMAIN contexts
          /\ contexts[last.user].missing_entities = <<"value">>
          /\ DictGet(contexts[last.user].entities, "key", None) = Strip(last.text)
          /\ last.response = prompt_for_entity("value")
    /\ LearnFollowup(<<"value">>)
       => LET key == DictGet(last.before[1].entities, "key", None)
          IN /\ last.response = Response("learned", "", key, Strip(last.text))
             /\ get(knowledge, key) = Strip(last.text)
             /\ last.user \notin DOMAIN contexts

\* a three-turn learn whose key is a text the extractor would have taken apart
C9_Witness ==
    /\ LearnFollowup(<<"value">>)
    /\ last.response.kind = "learned"
    /\ last.response.a = T_learn_x
    /\ get(knowledge, T_learn_x) = Strip(last.text)

\* C10: on the Idle path a learn_knowledge message from which both key and value are
\* extracted is committed to the knowledge in the same turn, the response is the
\* confirmation with key and value, no state is stored, and a following get or query
\* of that key returns the value.
C10_DirectLearn ==
    (IdleWith("learn_knowledge") /\ Truthy(LearnKey) /\ Truthy(LearnValue))
    => /\ last.response = Response("learned", "", LearnKey, LearnValue)
       /\ last.user \notin DOMAIN contexts
       /\ get(knowledge, LearnKey) = LearnValue
       /\ query(knowledge, LearnKey) = LearnValue

\* "learn X = 5" was learned in one turn
C10_Witness ==
    /\ IdleWith("learn_knowledge")
    /\ last.text = T_learn_x
    /\ last.response = Response("learned", "", <<"X">>, <<"5">>)
    /\ get(knowledge, <<"X">>) = <<"5">>

\* the user had no stored state when the last message arrived
WasIdle == NonEmptyMessage /\ last.before = <<>>

\* C11: when the message of an Idle user matches no intent, the response is the fixed
\* "didn't understand" text, the user remains Idle, and neither the conversation
\* store nor the knowledge is changed.
C11_NoIntentNoChange ==
    (WasIdle /\ IntentOf(Strip(last.text)) = NoIntent)
    => /\ last.response = Response("not_understood", "", <<>>, <<>>)
       /\ Stored(last.user) = last.before
       /\ knowledge = last.known

\* a message without intent came when something was already known
C11_Witness ==
    /\ WasIdle
    /\ IntentOf(Strip(last.text)) = NoIntent
    /\ last.response.kind = "not_understood"
    /\ last.known # <<>>
    /\ contexts = EmptyDict

\* the last call was a message whose text is empty or only whitespace
EmptyMessage == last.op = "message" /\ Strip(last.text) = <<>>

\* C12: for empty or whitespace-only text process_message returns the re-prompt and
\* leaves the user's conversation state exactly as it was (no state stays no state; a
\* stored state keeps its intent, entities, missing and created_at) and leaves the
\* knowledge unchanged.
C12_EmptyTextNoChange ==
    EmptyMessage
    => /\ last.response = Response("reprompt", "", <<>>, <<>>)
       /\ ~last.raised
       /\ Stored(last.user) = last.before
       /\ knowledge = last.known

\* a whitespace-only message of a user with a stored state and a known fact
C12_Witness ==
    /\ EmptyMessage
    /\ last.text = T_blank
    /\ last.before # <<>>
    /\ last.known # <<>>
    /\ Stored(last.user) = last.before
    /\ last.response.kind = "reprompt"

\* the registered actions that accept the intent of the last call, as indexes
Accepting == {i \in DOMAIN actions : last.intent \in actions[i].handles}

\* C13: route never propagates a failure raised by the matched action's execute: it
\* returns the apologetic text instead; and when no registered action accepts the
\* intent it returns the fixed "no action for this intent" message without executing
\* anything.
C13_RouteCatchesFailure ==
    last.op = "route"
    => /\ ~last.raised
       /\ last.response.kind # "raise"
       /\ \A i \in DOMAIN last.executed :
            last.executed[i].raised => last.response.kind = "error"
       /\ Accepting = {}
          => /\ last.response = Response("no_action", last.intent, <<>>, <<>>)
             /\ last.executed = <<>>

\* an execute that raised was answered with the apology
C13_Witness ==
    /\ last.op = "route"
    /\ Len(last.executed) = 1
    /\ last.executed[1].raised
    /\ last.response.kind = "error"
    /\ ~last.raised

\* C14: registration order is match priority. For any sequence of register calls and
\* any intent, route executes exactly one action, the earliest registered one that
\* accepts the intent, and get_required_entities returns the required list of that
\* same action (the empty list if none accepts); a later accepting action is never
\* executed, even when the first one fails.
C14_FirstMatchWins ==
    /\ (last.op = "route" /\ Accepting # {})
       => /\ Len(last.executed) = 1
          /\ \E i \in Accepting :
                /\ \A j \in Accepting : i <= j
                /\ last.executed[1].action = actions[i].name
    /\ (last.op = "route" /\ Accepting = {}) => last.executed = <<>>
    /\ (last.op = "get_required_entities" /\ Accepting # {})
       => \E i \in Accepting :
            /\ \A j \in Accepting : i <= j
            /\ last.response.a = actions[i].required
    /\ (last.op = "get_required_entities" /\ Accepting = {}) => last.response.a = <<>>

\* the first of two accepting actions failed and the second was not tried
C14_Witness ==
    /\ last.op = "route"
    /\ Accepting = {1, 2}
    /\ Len(last.executed) = 1
    /\ last.executed[1].action = actions[1].name
    /\ last.executed[1].raised
    /\ last.response.kind = "error"

\* the key or question of the last call as the engine normalizes it
Normalized == Strip(Lower(last.text))

\* the entries under the normalized key of the last call, as indexes
Exact(kb) == {i \in DOMAIN kb : kb[i].key = Normalized}

\* the entries whose key is a substring of the normalized question or contains it
Related(kb) ==
    {i \in DOMAIN kb : Contains(Normalized, kb[i].key) \/ Contains(kb[i].key, Normalized)}

\* C15: round trip with exact-match precedence. After add(k, v), query(k) returns
\* the trimmed v for every content of the store: the exact normalized match is
\* returned even when an earlier-stored key is a substring of k or contains k.
C15_RoundTrip ==
    last.op = "add_knowledge" => query(knowledge, last.text) = Strip(last.response.b)

\* a key was added after another key that is a substring of it and has another value
C15_Witness ==
    /\ last.op = "add_knowledge"
    /\ \E i \in Related(knowledge) :
            /\ i < Min(Exact(knowledge))
            /\ knowledge[i].value # Strip(last.response.b)
    /\ query(knowledge, last.text) = Strip(last.response.b)

\* C16: last write wins under key normalization. After add(k1, v1) and then
\* add(k2, v2), where k1 and k2 are equal after lowercasing and trimming, query and
\* get of that key return v2, and the store holds a single entry for it.
C16_LastWriteWins ==
    /\ \A i, j \in DOMAIN knowledge : knowledge[i].key = knowledge[j].key => i = j
    /\ last.op = "add_knowledge"
       => /\ Cardinality(Exact(knowledge)) = 1
          /\ get(knowledge, last.text) = Strip(last.response.b)
          /\ query(knowledge, last.text) = Strip(last.response.b)
          /\ Exact(last.known) # {} => Len(knowledge) = Len(last.known)

\* the key was stored with another value, and is now given in another spelling
C16_Witness ==
    /\ last.op = "add_knowledge"
    /\ last.text # Normalized
    /\ \E i \in Exact(last.known) : last.known[i].value # Strip(last.response.b)
    /\ Len(knowledge) = Len(last.known)
    /\ get(knowledge, Normalized) = Strip(last.response.b)

\* C17: when the normalized question has no exact match, query returns the value of
\* the first stored key, in the order of first insertion, that is a substring of the
\* question or contains it, and the fixed "unknown" fallback only when no stored key
\* has that relation; get never uses this fallback: it returns the value of the
\* exact match or nothing.
C17_FuzzyFallback ==
    /\ (last.op = "query" /\ Exact(knowledge) = {})
       => last.response.a =
            IF Related(knowledge) # {}
            THEN knowledge[CHOOSE i \in Related(knowledge) :
                                \A j \in Related(knowledge) : i <= j].value
            ELSE UnknownMessage
    /\ last.op = "get"
       => last.response.a =
            IF Exact(knowledge) # {}
            THEN knowledge[CHOOSE i \in Exact(knowledge) : TRUE].value
            ELSE None

\* a question without exact match that two stored keys are related to, with two values
C17_Witness ==
    /\ last.op = "query"
    /\ Exact(knowledge) = {}
    /\ \E i, j \in Related(knowledge) :
            /\ i < j
            /\ knowledge[i].value # knowledge[j].value
            /\ last.response.a = knowledge[i].value

\* the users whose context, in the store as it was when the last call was made, is
\* older than the timeout
Overdue == {u \in DOMAIN last.store : now - last.store[u].timestamp > timeout_minutes}

\* C18: cleanup_expired deletes exactly the entries whose age exceeds the timeout,
\* the timeout get_pending uses; it leaves every other entry unchanged and returns
\* the number of entries it deleted, so that an entry get_pending has already
\* removed is not counted by a later sweep.
C18_CleanupExact ==
    /\ last.op = "cleanup_expired"
       => /\ DOMAIN contexts = (DOMAIN last.store) \ Overdue
          /\ \A u \in DOMAIN contexts : contexts[u] = last.store[u]
          /\ last.count = Cardinality(Overdue)
    /\ last.op = "get_pending"
       => /\ DOMAIN contexts = (DOMAIN last.store) \ (Overdue \cap {last.user})
          /\ \A u \in DOMAIN contexts : contexts[u] = last.store[u]
          /\ last.pending = "live" <=> last.user \in DOMAIN contexts

\* a sweep that deleted one of two contexts, the other being exactly as old as the
\* timeout
C18_Witness ==
    /\ last.op = "cleanup_expired"
    /\ last.count = 1
    /\ Cardinality(DOMAIN last.store) = 2
    /\ \E u \in DOMAIN contexts : now - contexts[u].timestamp = timeout_minutes

\* the names the entities given to the last call map to a non-empty value
Filled == {n \in DOMAIN last.args : last.args[n] # <<>> /\ last.args[n] # None}

\* sequence t is sequence s without its elements in the set drop, in the same order
IsWithout(t, s, drop) ==
    \E keep \in SUBSET DOMAIN s :
        /\ keep = {i \in DOMAIN s : s[i] \notin drop}
        /\ Len(t) = Cardinality(keep)
        /\ \A k \in DOMAIN t :
            \E i \in keep : t[k] = s[i] /\ Cardinality({j \in keep : j < i}) = k - 1

\* C19: update_entities(user, new) sets the stored entities to the old entities
\* overridden by new, removes from missing exactly the names that new maps to a
\* non-empty value, keeping the order of the remaining names, and changes nothing
\* when the user has no entry: it does not create one.
C19_UpdateEntities ==
    last.op = "update_entities"
    => IF last.user \in DOMAIN last.store
       THEN LET old     == last.store[last.user]
                updated == contexts[last.user]
            IN /\ DOMAIN contexts = DOMAIN last.store
               /\ \A u \in (DOMAIN contexts) \ {last.user} : contexts[u] = last.store[u]
               /\ DOMAIN updated.entities = (DOMAIN old.entities) \cup (DOMAIN last.args)
               /\ \A n \in DOMAIN last.args : updated.entities[n] = last.args[n]
               /\ \A n \in (DOMAIN old.entities) \ (DOMAIN last.args) :
                    updated.entities[n] = old.entities[n]
               /\ IsWithout(updated.missing_entities, old.missing_entities, Filled)
       ELSE contexts = last.store

\* an update that added a name to the entities of an earlier update and took the
\* middle name out of a missing list from which that update had taken nothing
C19_Witness ==
    /\ last.op = "update_entities"
    /\ last.user \in DOMAIN last.store
    /\ "guests" \in DOMAIN last.store[last.user].entities
    /\ last.store[last.user].missing_entities = <<"location", "date", "time">>
    /\ contexts[last.user].missing_entities = <<"location", "time">>
    /\ Cardinality(DOMAIN contexts[last.user].entities) = 3

\* what process_message does, called alone, with a text without intent for a user
\* whose stored context is stored (<<>> or <<context>>): the context stored
\* afterwards, the response and the execute calls
SerialCall(stored, text, fails) ==
    IF stored = <<>>
    THEN [stored |-> <<>>, response |-> Response("not_understood", "", <<>>, <<>>),
          executed |-> <<>>]
    ELSE LET filled  == FilledEntities(stored[1], stored[1].missing_entities[1], text)
             updated == update_entities(
                            DictSet(EmptyDict, CollectingUser, [stored[1] EXCEPT !.entities = filled]),
                            CollectingUser, filled)[CollectingUser]
             routed  == route(actions, updated.intent, updated.entities, fails)
         IN IF updated.missing_entities # <<>>
            THEN [stored |-> <<updated>>,
                  response |-> prompt_for_entity(updated.missing_entities[1]),
                  executed |-> <<>>]
            ELSE [stored |-> <<>>, response |-> routed.response, executed |-> routed.executed]

\* the two calls ended as if first had been processed whole before second
AsIfSerial(first, second) ==
    \E f1, f2 \in BOOLEAN :
        LET r1 == SerialCall(<<CollectingContext(actions[1])>>, threads.calls[first].text, f1)
            r2 == SerialCall(r1.stored, threads.calls[second].text, f2)
        IN /\ threads.calls[first].response = r1.response
           /\ threads.calls[first].executed = r1.executed
           /\ threads.calls[second].response = r2.response
           /\ threads.calls[second].executed = r2.executed
           /\ Stored(CollectingUser) = r2.stored

\* C20: access to one user's entry is serialized. When two messages of the same
\* Collecting user are processed concurrently, the result (the two responses, the
\* execute calls and the stored state) equals that of processing them in some serial
\* order: no slot value is lost or overwritten by the other message, and no response
\* prompts for a slot of a state that has already been cleared.
C20_Serialized ==
    (\A t \in Threads : threads.calls[t].pc = "done")
    => \E first, second \in Threads : first # second /\ AsIfSerial(first, second)

\* C21: a cleanup_expired sweep that runs at the same time as get_pending,
\* update_entities or clear for the same user does not race destructively: under
\* every interleaving neither call fails, no entry that is not expired is removed
\* (but by clear), and the count returned is the number of entries the sweep itself
\* removed.
C21_SweepDoesNotRace ==
    /\ ~threads.sweep.raised
    /\ ~threads.call.raised
    /\ \A u \in threads.sweep.deleted : u \in threads.sweep.expired_users
    /\ threads.sweep.pc = "done" => threads.sweep.count = Cardinality(threads.sweep.deleted)

\* C22: processing a message of user u, on any path (new, follow-up, expiry,
\* completion), leaves the stored context of every other user v as it was (same
\* intent, entities, missing_entities, timestamp), and there is at most one context
\* per user: the one stored under u is u's.
C22_UserIsolation ==
    [][turns' = turns + 1
        => /\ last'.op = "message"
           /\ \A v \in ContextUsers \ {last'.user} : Stored(v)' = Stored(v)
           /\ \A u \in DOMAIN contexts' : contexts'[u].user_id = u]_vars

\* u1 completed its conversation and was cleared while u2's context, made before,
\* is still stored
C22_Witness ==
    /\ last.op = "message" /\ last.user = "u1" /\ last.path = "followup"
    /\ last.response.kind = "weather"
    /\ "u1" \notin DOMAIN contexts
    /\ "u2" \in DOMAIN contexts
    /\ contexts["u2"].missing_entities = <<"location">>

\* C23: extract_entities returns a partial mapping: when no location is found for
\* get_weather, or the cleaned question is empty for ask_knowledge, the name is not
\* a key of the mapping returned; no name is present with an empty or null value.
C23_PartialEntities ==
    last.op = "extract_entities"
    => \A n \in DOMAIN last.args : Truthy(last.args[n])

\* the call was a follow-up of a conversation that is not a learn conversation
OtherFollowup ==
    /\ last.op = "message" /\ last.path = "followup"
    /\ last.before[1].intent # "learn_knowledge"
    /\ last.before[1].missing_entities # <<>>

\* the entities after the call: those stored, or those the action was executed with
EntitiesAfter ==
    IF last.user \in DOMAIN contexts THEN contexts[last.user].entities
    ELSE last.executed[1].params

\* C24: on a follow-up for an intent other than learn_knowledge, the value stored
\* for slot = missing_entities[0] is the extractor's value for that slot when it is
\* not empty and the whole trimmed text otherwise; what the extractor yields for
\* other names is not merged: only that one slot changes in the turn.
C24_OneSlotFilled ==
    OtherFollowup
    => \E slot \in {last.before[1].missing_entities[1]},
          extracted \in {extract_entities(Strip(last.text), last.before[1].intent)} :
        /\ (last.user \in DOMAIN contexts \/ last.executed # <<>>)
        /\ EntitiesAfter =
             DictSet(last.before[1].entities, slot,
                     IF slot \in DOMAIN extracted /\ Truthy(extracted[slot])
                     THEN extracted[slot] ELSE Strip(last.text))

\* the date was asked for and the answer named a place: the date is the whole
\* answer, and the location given in the first message is kept
C24_Witness ==
    /\ OtherFollowup
    /\ last.before[1].missing_entities = <<"date">>
    /\ last.text = T_in_tokyo
    /\ last.executed # <<>>
    /\ last.executed[1].params["location"] = <<"P","a","r","i","s">>
    /\ last.executed[1].params["date"] = <<"i","n"," ","T","o","k","y","o">>

\* some pattern of the intent matches the lowercased text of the last call
PatternHit(intent) ==
    \E k \in DOMAIN intent_patterns :
        /\ intent_patterns[k].intent = intent
        /\ \E p \in DOMAIN intent_patterns[k].patterns :
               ReSearch(intent_patterns[k].patterns[p], Lower(last.text))

\* C25: for a text without the assignment marker, detect_intent returns the first
\* intent, in the order get_weather, learn_knowledge, ask_knowledge, that has a
\* pattern matching the lowercased text, and none when no intent matches or the text
\* is empty or blank; a text that matches a weather pattern and an ask pattern is
\* get_weather.
C25_FirstIntentInOrder ==
    (last.op = "detect_intent" /\ ~Contains(last.text, <<"=">>))
    => /\ last.intent = IF PatternHit("get_weather") THEN "get_weather"
                        ELSE IF PatternHit("learn_knowledge") THEN "learn_knowledge"
                        ELSE IF PatternHit("ask_knowledge") THEN "ask_knowledge"
                        ELSE NoIntent
       /\ Strip(last.text) = <<>> => last.intent = NoIntent

\* "What's the weather" matches a weather pattern and an ask pattern
C25_Witness ==
    /\ last.op = "detect_intent"
    /\ last.text = T_weather
    /\ PatternHit("get_weather") /\ PatternHit("ask_knowledge")
    /\ last.intent = "get_weather"

\* loading the configuration fails: the file is missing, it is no document, or a
\* section that is present lacks its credential field
LoadFails ==
    /\ last.config.path
    /\ \/ ~last.config.found
       \/ ~last.config.valid
       \/ \E k \in DOMAIN ChannelSections :
            /\ ChannelSections[k].name \in DOMAIN last.config.document
            /\ ChannelSections[k].field \notin DOMAIN last.config.document[ChannelSections[k].name]

\* C26: when loading the channel configuration fails, the bot is constructed all the
\* same and its channels are the minimal default set, exactly the internal channel;
\* in every case the internal channel is registered.
C26_LoadFailureDefaults ==
    last.op = "__init__"
    => /\ "internal" \in DOMAIN channels
       /\ LoadFails => DOMAIN channels = {"internal"}

\* C27: after every process_message call every stored context has a missing_entities
\* list that is not empty (a context is cleared in the turn in which the list gets
\* empty), so _handle_followup never takes its branch for a context without a
\* missing entity.
C27_StoredHasMissing ==
    /\ \A u \in DOMAIN contexts : contexts[u].missing_entities # <<>>
    /\ (last.op = "message" /\ last.path = "followup")
       => last.before[1].missing_entities # <<>>

\* a follow-up filled the only name still missing, and the context is gone
C27_Witness ==
    /\ last.op = "message" /\ last.path = "followup"
    /\ Len(last.before[1].missing_entities) = 1
    /\ last.user \notin DOMAIN contexts
    /\ last.response.kind \in {"weather", "learned"}

\* the call was given a text that is not blank while the user's context was live
LiveMessage == NonEmptyMessage /\ last.pending = "live"

\* C28: while a user has a live context the orchestrator neither calls set_pending
\* for the user nor classifies the message: the stored intent and timestamp stay as
\* they are for the whole conversation, and every message that is not empty, even
\* one that matches another intent, is taken as the value of missing_entities[0].
C28_LiveStateConsumes ==
    LiveMessage
    => \E slot \in {last.before[1].missing_entities[1]} :
        /\ last.path = "followup"
        /\ last.intent = last.before[1].intent
        /\ last.user \in DOMAIN contexts
           => /\ contexts[last.user].intent = last.before[1].intent
              /\ contexts[last.user].timestamp = last.before[1].timestamp
              /\ slot \notin Range(contexts[last.user].missing_entities)
              /\ Truthy(contexts[last.user].entities[slot])
              /\ \A n \in DOMAIN last.before[1].entities \ {slot} :
                    contexts[last.user].entities[n] = last.before[1].entities[n]
        /\ last.executed # <<>> => Truthy(last.executed[1].params[slot])
        /\ last.response.kind = "learned"
           => Strip(last.text) \in {last.response.a, last.response.b}

\* a message that reads as a learn command was taken as the location of a weather
\* conversation begun some minutes before; nothing was learned
C28_Witness ==
    /\ LiveMessage
    /\ last.text = T_learn_x
    /\ detect_intent(last.text) = "learn_knowledge"
    /\ last.before[1].intent = "get_weather"
    /\ last.before[1].timestamp < now
    /\ last.user \in DOMAIN contexts
    /\ contexts[last.user].intent = "get_weather"
    /\ contexts[last.user].entities["location"] = T_learn_x
    /\ knowledge = <<>>

\* the last call was the follow-up that filled the last missing entity, and the
\* action it was routed to failed
CompletionFailed ==
    /\ last.op = "message" /\ last.path = "followup"
    /\ last.executed # <<>>
    /\ last.executed[Len(last.executed)].raised

\* C29: when the routed action fails on the turn that completes a conversation, the
\* user's context has been cleared already: the response is the apology, the user
\* has no context and the collected entities are gone, and the next message is
\* classified afresh; no context is left from which the action is tried again.
C29_FailureLeavesIdle ==
    [][/\ CompletionFailed'
          => /\ ~last'.raised
             /\ last'.response.kind = "error"
             /\ last'.user \notin DOMAIN contexts'
       /\ (CompletionFailed /\ turns' = turns + 1 /\ Strip(last'.text) # <<>>)
          => /\ last'.path = "new"
             /\ last'.intent = detect_intent(last'.text)
             /\ last'.before = <<>>]_vars

\* the last entity was collected, TripAction failed, the user got the apology and
\* has no context
C29_Witness ==
    /\ CompletionFailed
    /\ last.executed[1].action = "TripAction"
    /\ last.response.kind = "error"
    /\ last.user \notin DOMAIN contexts

\* C30: the knowledge is modified only by a learn_knowledge commit, made at once on
\* a new message or on completion of a live learn conversation: a message handled as
\* get_weather or ask_knowledge, without intent, empty, or as a follow-up that is
\* not the last leaves it unchanged, as does every other call, and a learn
\* conversation that expires before its last entity is filled commits nothing.
C30_OnlyLearnCommits ==
    [][knowledge' # knowledge
        => /\ last'.op = "message"
           /\ last'.intent = "learn_knowledge"
           /\ last'.response.kind = "learned"
           /\ knowledge' = add_knowledge(knowledge, last'.response.a, last'.response.b)
           /\ last'.path = "followup"
              => /\ last'.pending = "live"
                 /\ last'.user \notin DOMAIN contexts'
                 /\ Len(last'.before[1].missing_entities) = 1
           /\ last'.path = "new"
              => EntitiesOf(Strip(last'.text), "learn_knowledge")
                    = DictSet(DictSet(EmptyDict, "key", last'.response.a),
                              "value", last'.response.b)]_vars

\* a learn conversation had its key and expired before the value came: the next
\* message is not understood and nothing is in the knowledge
C30_Witness ==
    /\ NonEmptyMessage
    /\ last.pending = "expired"
    /\ last.before[1].intent = "learn_knowledge"
    /\ last.before[1].missing_entities = <<"value">>
    /\ Truthy(last.before[1].entities["key"])
    /\ last.response.kind = "not_understood"
    /\ last.known = <<>> /\ knowledge = <<>>
====
